---- MODULE Spec2Model ----
(***************************************************************************)
(* A model of prasetyowira/shorter: the namespaced LRU cache               *)
(* (infrastructure/cache/lru.go), the SQLite repository                    *)
(* (infrastructure/db) and the shortener service (domain/shortener).       *)
(*                                                                         *)
(* The specifications share the variables:                                 *)
(*   SpecCache    the cache driven by arbitrary calls of its API, one      *)
(*                call at a time;                                          *)
(*   SpecOrder    the same with room for MaxCapacity + 1 entries;          *)
(*   SpecLock     concurrent callers of the cache, at the grain of the     *)
(*                sync.RWMutex operations;                                 *)
(*   SpecLockFair SpecLock under a fair scheduler;                         *)
(*   Spec         the service (CreateShortURL, GetLongURL,                 *)
(*                UpdateLongURL) over the repository and the cache,        *)
(*                one call at a time;                                      *)
(*   SpecCode     CreateShortURL over many readings of the clock;          *)
(*   SpecRepo     the repository called directly;                          *)
(*   SpecStore    concurrent CreateShortURL calls, one step per            *)
(*                statement sent to the database;                          *)
(*   SpecRace     concurrent GetLongURL and UpdateLongURL calls;           *)
(*   SpecVisits   concurrent GetLongURL calls.                             *)
(***************************************************************************)
EXTENDS Integers, Sequences, FiniteSets, TLC

VARIABLES
    cache,        \* the NamespaceLRU: [capacity, items, queue]
    last,         \* the last call of the cache API and what it returned
    prev,         \* the call before the last one, in brief
    accessOrder,  \* history: composite keys of the live entries, oldest access first
    db,           \* the url_models table: short code -> row
    svc,          \* the last call of the service, what it returned and what it called
    pc,           \* per goroutine: where it is in its call of the cache
    call,         \* per goroutine: the call of the cache it is making
    mutex,        \* the sync.RWMutex of the cache
    race          \* the goroutines whose MoveToFront overlaps another one, and
                  \* whether such a race has written the list

apiVars == <<last, prev, accessOrder>>
svcVars == <<db, svc>>
lockVars == <<pc, call, mutex, race>>
vars == <<cache, last, prev, accessOrder, db, svc, pc, call, mutex, race>>

-----------------------------------------------------------------------------
(* Bounds and input sets *)

MaxCapacity == 2
MaxVisits == 2
NumProcs == 2

\* capacity is an int read from the environment: negative, zero and positive
Capacities == (0 - 1)..MaxCapacity

\* strings with and without the ':' that compositeKey uses as its separator
Namespaces == {"A", "A:B"}
Keys == {"k", "B:k", "j"}
Values == {"v1", "v2"}

Nil == "nil"

\* goroutines calling the cache concurrently, and what they call it with
Procs == 1..NumProcs
LockNamespaces == {"A"}
LockKeys == {"k", "j"}
LockValues == {"v1"}

\* inputs of the service
LongURLs == {"https://example.com", "https://other.com"}
CustomCodes == {"abcdef"}
\* what time.Now() reads for CreatedAt: an opaque instant
Times == {"t1"}
\* what the six time.Now().UnixNano() calls of one generateShortCode(6) read
ClockReadings == {<<0, 1, 2, 3, 4, 5>>, <<88, 89, 90, 91, 92, 93>>}

\* more readings of the clock, for the specification of the generated codes:
\* the first reading and the time from one reading to the next (the loop
\* sleeps between two readings, so the readings increase)
ClockStarts == {0, 25, 26, 51, 52, 59, 61, 2147478000}
ClockSteps == {1, 3, 62, 1000}
WideClockReadings ==
    {[i \in 1..6 |-> start + (i - 1) * step] :
        start \in ClockStarts, step \in ClockSteps}
WideCustomCodes == {"abcdef", "x", "my-link_01"}
\* rows the table may hold in the specification of the generated codes
MaxCodes == 2

-----------------------------------------------------------------------------
(* container/list, as far as the cache uses it: a sequence, front first *)

RemoveAt(queue, i) ==
    [j \in 1..(Len(queue) - 1) |-> IF j < i THEN queue[j] ELSE queue[j + 1]]

\* the queue without the elements at the positions in `indices`
RemoveAll(queue, indices) ==
    LET F[i \in 0..Len(queue)] ==
            IF i = 0 THEN <<>>
            ELSE IF i \in indices THEN F[i - 1] ELSE Append(F[i - 1], queue[i])
    IN  F[Len(queue)]

PushFront(queue, e) == <<e>> \o queue

MoveToFront(queue, i) == <<queue[i]>> \o RemoveAt(queue, i)

\* items maps a composite key to a *list.Element; an element is identified by
\* the (namespace, key) of its entry, which no operation ever rewrites
ElementRef(namespace, key) == [namespace |-> namespace, key |-> key]

ElementIndex(queue, ref) ==
    CHOOSE i \in 1..Len(queue) :
        queue[i].namespace = ref.namespace /\ queue[i].key = ref.key

DeleteKey(items, ck) == [x \in DOMAIN items \ {ck} |-> items[x]]

-----------------------------------------------------------------------------
(* NamespaceLRU *)

compositeKey(namespace, key) == namespace \o ":" \o key

NewNamespaceLRU(capacity) ==
    [capacity |-> capacity, items |-> <<>>, queue |-> <<>>]

\* mutant: evict removes nothing
evictNothing(c) == c

\* mutant: evict takes the front of the queue, the newest element
evictFront(c) ==
    IF Len(c.queue) = 0
    THEN c
    ELSE LET element == c.queue[1]
             ck == compositeKey(element.namespace, element.key)
         IN  [c EXCEPT !.queue = Tail(c.queue),
                       !.items = DeleteKey(c.items, ck)]

\* mutant: evict removes the element from the list and leaves the index
evictQueueOnly(c) ==
    IF Len(c.queue) = 0
    THEN c
    ELSE [c EXCEPT !.queue = RemoveAt(c.queue, Len(c.queue))]

evict(c) ==
    IF Len(c.queue) = 0
    THEN c
    ELSE LET element == c.queue[Len(c.queue)]
             ck == compositeKey(element.namespace, element.key)
         IN  [c EXCEPT !.queue = RemoveAt(c.queue, Len(c.queue)),
                       !.items = DeleteKey(c.items, ck)]

\* mutant: the capacity is checked on an overwrite as well, against a
\* cache that counts the written element twice
SetEvictsOnOverwrite(c, namespace, key, value) ==
    LET ck == compositeKey(namespace, key) IN
    IF ck \in DOMAIN c.items
    THEN LET i == ElementIndex(c.queue, c.items[ck])
             moved == MoveToFront(c.queue, i)
             j == ElementIndex(moved, c.items[ck])
             written == [c EXCEPT !.queue = [moved EXCEPT ![j].value = value]]
         IN  IF Len(written.queue) + 1 > written.capacity
             THEN evict(written)
             ELSE written
    ELSE LET element == [namespace |-> namespace, key |-> key, value |-> value]
             pushed == [c EXCEPT
                          !.queue = PushFront(c.queue, element),
                          !.items = (ck :> ElementRef(namespace, key)) @@ c.items]
         IN  IF Len(pushed.queue) > pushed.capacity
             THEN evict(pushed)
             ELSE pushed

\* mutant: Set of a present key refreshes its recency and keeps the old value
SetKeepsOldValue(c, namespace, key, value) ==
    LET ck == compositeKey(namespace, key) IN
    IF ck \in DOMAIN c.items
    THEN [c EXCEPT !.queue = MoveToFront(c.queue, ElementIndex(c.queue, c.items[ck]))]
    ELSE LET element == [namespace |-> namespace, key |-> key, value |-> value]
             pushed == [c EXCEPT
                          !.queue = PushFront(c.queue, element),
                          !.items = (ck :> ElementRef(namespace, key)) @@ c.items]
         IN  IF Len(pushed.queue) > pushed.capacity
             THEN evict(pushed)
             ELSE pushed

Set(c, namespace, key, value) ==
    LET ck == compositeKey(namespace, key) IN
    IF ck \in DOMAIN c.items
    THEN LET i == ElementIndex(c.queue, c.items[ck])
             moved == MoveToFront(c.queue, i)
             j == ElementIndex(moved, c.items[ck])
         IN  [c EXCEPT !.queue = [moved EXCEPT ![j].value = value]]
    ELSE LET element == [namespace |-> namespace, key |-> key, value |-> value]
             pushed == [c EXCEPT
                          !.queue = PushFront(c.queue, element),
                          !.items = (ck :> ElementRef(namespace, key)) @@ c.items]
         IN  IF Len(pushed.queue) > pushed.capacity
             THEN evict(pushed)
             ELSE pushed

\* mutant: Get returns the value and leaves the element where it is
GetWithoutMove(c, namespace, key) ==
    LET ck == compositeKey(namespace, key) IN
    IF ck \notin DOMAIN c.items
    THEN [cache |-> c, value |-> Nil, found |-> FALSE]
    ELSE [cache |-> c,
          value |-> c.queue[ElementIndex(c.queue, c.items[ck])].value,
          found |-> TRUE]

\* Get returns the cache it leaves behind with the two results of the call
Get(c, namespace, key) ==
    LET ck == compositeKey(namespace, key) IN
    IF ck \notin DOMAIN c.items
    THEN [cache |-> c, value |-> Nil, found |-> FALSE]
    ELSE LET i == ElementIndex(c.queue, c.items[ck])
         IN  [cache |-> [c EXCEPT !.queue = MoveToFront(c.queue, i)],
              value |-> c.queue[i].value,
              found |-> TRUE]

\* mutant: Invalidate fills the place of the removed element with the
\* element at the back of the list
InvalidateSwapRemove(c, namespace, key) ==
    LET ck == compositeKey(namespace, key) IN
    IF ck \in DOMAIN c.items
    THEN LET i == ElementIndex(c.queue, c.items[ck])
             n == Len(c.queue)
         IN  [c EXCEPT !.queue = [j \in 1..(n - 1) |->
                                    IF j = i THEN c.queue[n] ELSE c.queue[j]],
                       !.items = DeleteKey(c.items, ck)]
    ELSE c

Invalidate(c, namespace, key) ==
    LET ck == compositeKey(namespace, key) IN
    IF ck \in DOMAIN c.items
    THEN [c EXCEPT !.queue = RemoveAt(c.queue, ElementIndex(c.queue, c.items[ck])),
                   !.items = DeleteKey(c.items, ck)]
    ELSE c

\* the keys whose element carries the namespace; the removal order does not
\* matter, every one of them is removed from the queue and from the map
InvalidateNamespace(c, namespace) ==
    LET keysToRemove ==
            {ck \in DOMAIN c.items :
                c.queue[ElementIndex(c.queue, c.items[ck])].namespace = namespace}
        elementsToRemove ==
            {ElementIndex(c.queue, c.items[ck]) : ck \in keysToRemove}
    IN  [c EXCEPT !.queue = RemoveAll(c.queue, elementsToRemove),
                  !.items = [x \in DOMAIN c.items \ keysToRemove |-> c.items[x]]]

\* mutant: Clear evicts until one element, the newest, is left
ClearKeepsFront(c) ==
    IF Len(c.queue) = 0
    THEN c
    ELSE LET element == c.queue[1]
             ck == CHOOSE x \in DOMAIN c.items : c.items[x] = ElementRef(element.namespace, element.key)
         IN  [c EXCEPT !.queue = <<element>>,
                       !.items = (ck :> c.items[ck])]

Clear(c) == [c EXCEPT !.items = <<>>, !.queue = <<>>]

\* a (namespace, key) pair is present when the index holds its composite key,
\* which is what Set and Get test
Present(c, namespace, key) == compositeKey(namespace, key) \in DOMAIN c.items

Size(c) == Len(c.queue)

-----------------------------------------------------------------------------
(* sync.RWMutex: one writer or any number of readers; a writer that has      *)
(* announced itself keeps new readers out until it has held the lock         *)

NewRWMutex == [writer |-> 0, pending |-> 0, readers |-> {}]

NoRace == [overlapping |-> {}, happened |-> FALSE]

\* the lock each method of NamespaceLRU takes: Lock or RLock. The cache part
\* of the repository's IncrementVisits is a Get, followed by a Set when the
\* Get found the key, so it starts with the lock of Get
LockMode(op) ==
    IF op \in {"Get", "Size", "IncrementVisits"} THEN "RLock" ELSE "Lock"

-----------------------------------------------------------------------------
(* The cache driven through its API, one call at a time *)

Touch(order, ck) == SelectSeq(order, LAMBDA x : x # ck) \o <<ck>>

Live(order, items) == SelectSeq(order, LAMBDA x : x \in DOMAIN items)

Call(op, namespace, key, value, found, before, after) ==
    [op |-> op, namespace |-> namespace, key |-> key, value |-> value,
     found |-> found, size |-> Size(after),
     removed |-> (DOMAIN before.items) \ (DOMAIN after.items)]

NoCall == [op |-> "New", namespace |-> Nil, key |-> Nil, value |-> Nil,
           found |-> FALSE, size |-> 0, removed |-> {}]

Brief(record) == [op |-> record.op, namespace |-> record.namespace,
                  key |-> record.key, found |-> record.found]

\* the short code a call was about: the one CreateShortURL stored, else its argument
CodeOf(op, shortCode, r) ==
    IF op = "CreateShortURL" /\ r.err = Nil THEN r.url.ShortCode ELSE shortCode

\* `after` is history: the operation of the call before this one, when that
\* call succeeded on the same short code, else "other"
ServiceCall(op, shortCode, longURL, r, before) ==
    [op |-> op, shortCode |-> shortCode, longURL |-> longURL,
     url |-> r.url, err |-> r.err, calls |-> r.calls,
     code |-> CodeOf(op, shortCode, r),
     after |-> IF before.err = Nil /\ before.code = CodeOf(op, shortCode, r)
               THEN before.op
               ELSE "other"]

NoServiceCall ==
    [op |-> "New", shortCode |-> Nil, longURL |-> Nil,
     url |-> Nil, err |-> Nil, calls |-> <<>>, code |-> Nil, after |-> "other"]

InitCache ==
    /\ cache \in {NewNamespaceLRU(capacity) : capacity \in Capacities}
    /\ last = NoCall
    /\ prev = Brief(NoCall)
    /\ accessOrder = <<>>
    /\ db = <<>>
    /\ svc = NoServiceCall
    /\ pc = [p \in Procs |-> "idle"]
    /\ call = [p \in Procs |-> NoCall]
    /\ mutex = NewRWMutex
    /\ race = NoRace

CallSet(namespace, key, value) ==
    /\ cache' = Set(cache, namespace, key, value)
    /\ last' = Call("Set", namespace, key, value, FALSE, cache, cache')
    /\ prev' = Brief(last)
    /\ accessOrder' = Live(Touch(accessOrder, compositeKey(namespace, key)), cache'.items)
    /\ UNCHANGED <<svcVars, lockVars>>

CallGet(namespace, key) ==
    LET r == Get(cache, namespace, key) IN
    /\ cache' = r.cache
    /\ last' = Call("Get", namespace, key, r.value, r.found, cache, cache')
    /\ prev' = Brief(last)
    /\ accessOrder' = IF r.found
                      THEN Touch(accessOrder, compositeKey(namespace, key))
                      ELSE accessOrder
    /\ UNCHANGED <<svcVars, lockVars>>

CallInvalidate(namespace, key) ==
    /\ cache' = Invalidate(cache, namespace, key)
    /\ last' = Call("Invalidate", namespace, key, Nil, FALSE, cache, cache')
    /\ prev' = Brief(last)
    /\ accessOrder' = Live(accessOrder, cache'.items)
    /\ UNCHANGED <<svcVars, lockVars>>

CallInvalidateNamespace(namespace) ==
    /\ cache' = InvalidateNamespace(cache, namespace)
    /\ last' = Call("InvalidateNamespace", namespace, Nil, Nil, FALSE, cache, cache')
    /\ prev' = Brief(last)
    /\ accessOrder' = Live(accessOrder, cache'.items)
    /\ UNCHANGED <<svcVars, lockVars>>

CallClear ==
    /\ cache' = Clear(cache)
    /\ last' = Call("Clear", Nil, Nil, Nil, FALSE, cache, cache')
    /\ prev' = Brief(last)
    /\ accessOrder' = <<>>
    /\ UNCHANGED <<svcVars, lockVars>>

CallSize ==
    /\ cache' = cache
    /\ last' = Call("Size", Nil, Nil, Nil, FALSE, cache, cache')
    /\ prev' = Brief(last)
    /\ accessOrder' = accessOrder
    /\ UNCHANGED <<svcVars, lockVars>>

NextCache ==
    \/ \E namespace \in Namespaces, key \in Keys, value \in Values :
            CallSet(namespace, key, value)
    \/ \E namespace \in Namespaces, key \in Keys : CallGet(namespace, key)
    \/ \E namespace \in Namespaces, key \in Keys : CallInvalidate(namespace, key)
    \/ \E namespace \in Namespaces : CallInvalidateNamespace(namespace)
    \/ CallClear
    \/ CallSize

SpecCache == InitCache /\ [][NextCache]_vars

-----------------------------------------------------------------------------
(* constant/strings.go *)

ErrEmptyLongURL == "Long URL cannot be empty"
ErrEmptyShortCode == "Short code cannot be empty"
ErrShortCodeExists == "short code already exists"
ErrShortCodeNotFound == "short code not found"
ShortURLNamespace == "SHORT"

\* an error of the database driver (result.Error), a storage fault
DBError == "database error"

-----------------------------------------------------------------------------
(* SQLiteRepository; `fault` names the statement of the call that the        *)
(* database fails, "none" when every statement succeeds                     *)

URL(id, longURL, shortCode, createdAt, visits) ==
    [ID |-> id, LongURL |-> longURL, ShortCode |-> shortCode,
     CreatedAt |-> createdAt, Visits |-> visits]

\* INTEGER PRIMARY KEY AUTOINCREMENT of a table no row is ever deleted from
NextID(table) == Cardinality(DOMAIN table) + 1

\* mutant: Store inserts without looking for the short code first
StoreWithoutExistsCheck(table, url, fault) ==
    IF fault \in {"count", "insert"}
    THEN [db |-> table, url |-> url, err |-> DBError]
    ELSE [db |-> (url.ShortCode :>
                    URL(NextID(table), url.LongURL, url.ShortCode,
                        url.CreatedAt, url.Visits)) @@ table,
          url |-> [url EXCEPT !.ID = 0],
          err |-> Nil]

\* url.ID = model.ID reads the model that was built without an ID: the raw
\* INSERT never writes the assigned key back, so the caller's URL keeps ID 0
Store(table, url, fault) ==
    IF fault = "count"
    THEN [db |-> table, url |-> url, err |-> DBError]
    ELSE IF url.ShortCode \in DOMAIN table
    THEN [db |-> table, url |-> url, err |-> ErrShortCodeExists]
    ELSE IF fault = "insert"
    THEN [db |-> table, url |-> url, err |-> DBError]
    ELSE [db |-> (url.ShortCode :>
                    URL(NextID(table), url.LongURL, url.ShortCode,
                        url.CreatedAt, url.Visits)) @@ table,
          url |-> [url EXCEPT !.ID = 0],
          err |-> Nil]

\* mutant: a short code without a row yields an empty record and no error
FindByShortCodeEmptyRow(table, shortCode, fault) ==
    IF fault = "select"
    THEN [url |-> Nil, err |-> DBError]
    ELSE IF shortCode \notin DOMAIN table
    THEN [url |-> URL(0, "", "", Nil, 0), err |-> Nil]
    ELSE [url |-> table[shortCode], err |-> Nil]

FindByShortCode(table, shortCode, fault) ==
    IF fault = "select"
    THEN [url |-> Nil, err |-> DBError]
    ELSE IF shortCode \notin DOMAIN table
    THEN [url |-> Nil, err |-> ErrShortCodeNotFound]
    ELSE [url |-> table[shortCode], err |-> Nil]

\* mutant: the UPDATE writes visits = 1 where it should add 1
IncrementVisitsSetsOne(table, c, shortCode, fault) ==
    IF fault = "increment"
    THEN [db |-> table, cache |-> c, err |-> DBError]
    ELSE IF shortCode \notin DOMAIN table
    THEN [db |-> table, cache |-> c, err |-> Nil]
    ELSE LET got == Get(c, ShortURLNamespace, shortCode)
         IN  [db |-> [table EXCEPT ![shortCode].Visits = 1],
              cache |-> IF got.found
                        THEN Set(got.cache, ShortURLNamespace, shortCode,
                                 [got.value EXCEPT !.Visits = 1])
                        ELSE got.cache,
              err |-> Nil]

\* mutant: IncrementVisits updates the table and leaves the cached record alone
IncrementVisitsStoreOnly(table, c, shortCode, fault) ==
    IF fault = "increment"
    THEN [db |-> table, cache |-> c, err |-> DBError]
    ELSE IF shortCode \notin DOMAIN table
    THEN [db |-> table, cache |-> c, err |-> Nil]
    ELSE [db |-> [table EXCEPT ![shortCode].Visits = @ + 1],
          cache |-> c,
          err |-> Nil]

\* mutant: an UPDATE that affects no row is reported as a missing short code
IncrementVisitsFailsOnZeroRows(table, c, shortCode, fault) ==
    IF fault = "increment"
    THEN [db |-> table, cache |-> c, err |-> DBError]
    ELSE IF shortCode \notin DOMAIN table
    THEN [db |-> table, cache |-> c, err |-> ErrShortCodeNotFound]
    ELSE LET got == Get(c, ShortURLNamespace, shortCode)
         IN  [db |-> [table EXCEPT ![shortCode].Visits = @ + 1],
              cache |-> IF got.found
                        THEN Set(got.cache, ShortURLNamespace, shortCode,
                                 [got.value EXCEPT !.Visits = @ + 1])
                        ELSE got.cache,
              err |-> Nil]

\* mutant: a short code without a row gets one, with its first visit counted
IncrementVisitsInsertsRow(table, c, shortCode, fault) ==
    IF fault = "increment"
    THEN [db |-> table, cache |-> c, err |-> DBError]
    ELSE IF shortCode \notin DOMAIN table
    THEN [db |-> (shortCode :> URL(NextID(table), "", shortCode, Nil, 1)) @@ table,
          cache |-> c,
          err |-> Nil]
    ELSE LET got == Get(c, ShortURLNamespace, shortCode)
         IN  [db |-> [table EXCEPT ![shortCode].Visits = @ + 1],
              cache |-> IF got.found
                        THEN Set(got.cache, ShortURLNamespace, shortCode,
                                 [got.value EXCEPT !.Visits = @ + 1])
                        ELSE got.cache,
              err |-> Nil]

\* every value stored under ShortURLNamespace is a *shortener.URL, so the type
\* assertion succeeds; url.Visits++ writes the object the cache element points
\* to, and Set then stores the same pointer again
IncrementVisits(table, c, shortCode, fault) ==
    IF fault = "increment"
    THEN [db |-> table, cache |-> c, err |-> DBError]
    ELSE IF shortCode \notin DOMAIN table
    THEN [db |-> table, cache |-> c, err |-> Nil]
    ELSE LET got == Get(c, ShortURLNamespace, shortCode)
         IN  [db |-> [table EXCEPT ![shortCode].Visits = @ + 1],
              cache |-> IF got.found
                        THEN Set(got.cache, ShortURLNamespace, shortCode,
                                 [got.value EXCEPT !.Visits = @ + 1])
                        ELSE got.cache,
              err |-> Nil]

\* mutant: the UPDATE writes the whole row again, with the visits at zero
RepoUpdateLongURLReplacesRow(table, shortCode, newLongURL, fault) ==
    IF fault = "count"
    THEN [db |-> table, err |-> DBError]
    ELSE IF shortCode \notin DOMAIN table
    THEN [db |-> table, err |-> ErrShortCodeNotFound]
    ELSE IF fault = "update"
    THEN [db |-> table, err |-> DBError]
    ELSE [db |-> [table EXCEPT ![shortCode] =
                    URL(@.ID, newLongURL, shortCode, @.CreatedAt, 0)],
          err |-> Nil]

\* the COUNT found the row, so the UPDATE that follows affects it: nothing
\* deletes a row, and RowsAffected == 0 does not happen after count > 0
RepoUpdateLongURL(table, shortCode, newLongURL, fault) ==
    IF fault = "count"
    THEN [db |-> table, err |-> DBError]
    ELSE IF shortCode \notin DOMAIN table
    THEN [db |-> table, err |-> ErrShortCodeNotFound]
    ELSE IF fault = "update"
    THEN [db |-> table, err |-> DBError]
    ELSE [db |-> [table EXCEPT ![shortCode].LongURL = newLongURL], err |-> Nil]

-----------------------------------------------------------------------------
(* shortener.Service *)

charset == "abcdefghijklmnopqrstuvwxyzABCDEFGHIJKLMNOPQRSTUVWXYZ0123456789"

\* mutant: the loop stops one character short
generateShortCodeShort(length, nanos) ==
    LET F[i \in 0..length] ==
            IF i = 0 THEN ""
            ELSE F[i - 1] \o SubSeq(charset, (nanos[i] % Len(charset)) + 1,
                                             (nanos[i] % Len(charset)) + 1)
    IN  F[length - 1]

\* result[i] = charset[time.Now().UnixNano() % len(charset)], nanos[i] being
\* the clock reading of iteration i
generateShortCode(length, nanos) ==
    LET F[i \in 0..length] ==
            IF i = 0 THEN ""
            ELSE F[i - 1] \o SubSeq(charset, (nanos[i] % Len(charset)) + 1,
                                             (nanos[i] % Len(charset)) + 1)
    IN  F[length]

\* generateShortCode(6) for each reading of the clock, computed once
GeneratedCodes ==
    [nanos \in ClockReadings \cup WideClockReadings |-> generateShortCode(6, nanos)]

\* shortCode := customShort, or generateShortCode(6) when it is empty
CodeFor(customShort, nanos) ==
    IF customShort = "" THEN GeneratedCodes[nanos] ELSE customShort

Result(table, c, url, err, calls) ==
    [db |-> table, cache |-> c, url |-> url, err |-> err, calls |-> calls]

\* mutant: the cache is written before the result of Store is looked at
CacheThenStore(table, c, longURL, customShort, now, nanos, fault) ==
    LET shortCode == CodeFor(customShort, nanos)
        stored == Store(table, URL(0, longURL, shortCode, now, 0), fault)
        written == Set(c, ShortURLNamespace, shortCode, stored.url)
    IN  IF stored.err # Nil
        THEN Result(stored.db, written, Nil, stored.err, <<"cache.Set", "repo.Store">>)
        ELSE Result(stored.db, written, stored.url, Nil, <<"cache.Set", "repo.Store">>)

\* mutant: the record is stored and returned, and the cache is left alone
StoreOnly(table, c, longURL, customShort, now, nanos, fault) ==
    LET shortCode == CodeFor(customShort, nanos)
        stored == Store(table, URL(0, longURL, shortCode, now, 0), fault)
    IN  IF stored.err # Nil
        THEN Result(stored.db, c, Nil, stored.err, <<"repo.Store">>)
        ELSE Result(stored.db, c, stored.url, Nil, <<"repo.Store">>)

\* CreateShortURL once the long URL has passed the check
StoreAndCache(table, c, longURL, customShort, now, nanos, fault) ==
    LET shortCode == CodeFor(customShort, nanos)
        stored == Store(table, URL(0, longURL, shortCode, now, 0), fault)
    IN  IF stored.err # Nil
        THEN Result(stored.db, c, Nil, stored.err, <<"repo.Store">>)
        ELSE Result(stored.db,
                    Set(c, ShortURLNamespace, shortCode, stored.url),
                    stored.url, Nil, <<"repo.Store", "cache.Set">>)

\* mutant: CreateShortURL without the check of the long URL
CreateShortURLUnchecked(table, c, longURL, customShort, now, nanos, fault) ==
    StoreAndCache(table, c, longURL, customShort, now, nanos, fault)

CreateShortURL(table, c, longURL, customShort, now, nanos, fault) ==
    IF longURL = ""
    THEN Result(table, c, Nil, ErrEmptyLongURL, <<>>)
    ELSE StoreAndCache(table, c, longURL, customShort, now, nanos, fault)

\* on a hit the returned urlObj is the pointer the cache element holds, so it
\* shows whatever IncrementVisits wrote to that object before the return
\* mutant: a cache hit is returned without counting the visit
LookupWithoutCountOnHit(table, c, shortCode, fault) ==
    LET got == Get(c, ShortURLNamespace, shortCode) IN
    IF got.found
    THEN Result(table, got.cache, got.value, Nil, <<"cache.Get">>)
    ELSE LET row == FindByShortCode(table, shortCode, fault) IN
         IF row.err # Nil
         THEN Result(table, got.cache, Nil, row.err,
                     <<"cache.Get", "repo.FindByShortCode">>)
         ELSE LET inc == IncrementVisits(table, got.cache, shortCode, fault)
              IN  Result(inc.db, inc.cache, row.url, Nil,
                         <<"cache.Get", "repo.FindByShortCode",
                           "repo.IncrementVisits">>)

\* mutant: the error of IncrementVisits is returned to the caller
LookupFailingWithCount(table, c, shortCode, fault) ==
    LET got == Get(c, ShortURLNamespace, shortCode) IN
    IF got.found
    THEN LET inc == IncrementVisits(table, got.cache, shortCode, fault)
         IN  IF inc.err # Nil
             THEN Result(inc.db, inc.cache, Nil, inc.err,
                         <<"cache.Get", "repo.IncrementVisits">>)
             ELSE Result(inc.db, inc.cache,
                         Get(inc.cache, ShortURLNamespace, shortCode).value, Nil,
                         <<"cache.Get", "repo.IncrementVisits">>)
    ELSE LET row == FindByShortCode(table, shortCode, fault) IN
         IF row.err # Nil
         THEN Result(table, got.cache, Nil, row.err,
                     <<"cache.Get", "repo.FindByShortCode">>)
         ELSE LET inc == IncrementVisits(table, got.cache, shortCode, fault)
              IN  IF inc.err # Nil
                  THEN Result(inc.db, inc.cache, Nil, inc.err,
                              <<"cache.Get", "repo.FindByShortCode",
                                "repo.IncrementVisits">>)
                  ELSE Result(inc.db, inc.cache, row.url, Nil,
                              <<"cache.Get", "repo.FindByShortCode",
                                "repo.IncrementVisits">>)

\* GetLongURL once the short code has passed the check. On a hit the caller
\* gets the pointer the cache holds, the object IncrementVisits has written
\* its Visits++ to; on a miss it gets the row FindByShortCode read before the
\* UPDATE of IncrementVisits, and nothing is put into the cache
LookupAndCount(table, c, shortCode, fault) ==
    LET got == Get(c, ShortURLNamespace, shortCode) IN
    IF got.found
    THEN LET inc == IncrementVisits(table, got.cache, shortCode, fault)
         IN  Result(inc.db, inc.cache,
                    Get(inc.cache, ShortURLNamespace, shortCode).value, Nil,
                    <<"cache.Get", "repo.IncrementVisits">>)
    ELSE LET row == FindByShortCode(table, shortCode, fault) IN
         IF row.err # Nil
         THEN Result(table, got.cache, Nil, row.err,
                     <<"cache.Get", "repo.FindByShortCode">>)
         ELSE LET inc == IncrementVisits(table, got.cache, shortCode, fault)
              IN  Result(inc.db, inc.cache, row.url, Nil,
                         <<"cache.Get", "repo.FindByShortCode",
                           "repo.IncrementVisits">>)

\* mutant: GetLongURL without the check of the short code
GetLongURLUnchecked(table, c, shortCode, fault) ==
    LookupAndCount(table, c, shortCode, fault)

GetLongURL(table, c, shortCode, fault) ==
    IF shortCode = ""
    THEN Result(table, c, Nil, ErrEmptyShortCode, <<>>)
    ELSE LookupAndCount(table, c, shortCode, fault)

\* mutant: UpdateLongURL writes the table and leaves the cache as it is
UpdateLongURLStoreOnly(table, c, shortCode, newLongURL, fault) ==
    IF shortCode = ""
    THEN Result(table, c, Nil, ErrEmptyShortCode, <<>>)
    ELSE IF newLongURL = ""
    THEN Result(table, c, Nil, ErrEmptyLongURL, <<>>)
    ELSE LET row == FindByShortCode(table, shortCode, fault) IN
         IF row.err # Nil
         THEN Result(table, c, Nil, row.err, <<"repo.FindByShortCode">>)
         ELSE LET upd == RepoUpdateLongURL(table, shortCode, newLongURL, fault) IN
              IF upd.err # Nil
              THEN Result(upd.db, c, Nil, upd.err,
                          <<"repo.FindByShortCode", "repo.UpdateLongURL">>)
              ELSE Result(upd.db, c, [row.url EXCEPT !.LongURL = newLongURL], Nil,
                          <<"repo.FindByShortCode", "repo.UpdateLongURL">>)

\* mutant: whether the short code exists is asked of the cache
ExistenceFromCache(table, c, shortCode, newLongURL, fault) ==
    LET got == Get(c, ShortURLNamespace, shortCode) IN
    IF ~got.found
    THEN Result(table, got.cache, Nil, ErrShortCodeNotFound, <<"cache.Get">>)
    ELSE LET upd == RepoUpdateLongURL(table, shortCode, newLongURL, fault) IN
         IF upd.err # Nil
         THEN Result(upd.db, got.cache, Nil, upd.err,
                     <<"cache.Get", "repo.UpdateLongURL">>)
         ELSE LET url == [got.value EXCEPT !.LongURL = newLongURL]
              IN  Result(upd.db, Set(got.cache, ShortURLNamespace, shortCode, url),
                         url, Nil,
                         <<"cache.Get", "repo.UpdateLongURL", "cache.Set">>)

\* mutant: the cache is written before the table is updated
CacheBeforeUpdate(table, c, shortCode, newLongURL, fault) ==
    LET row == FindByShortCode(table, shortCode, fault) IN
    IF row.err # Nil
    THEN Result(table, c, Nil, row.err, <<"repo.FindByShortCode">>)
    ELSE LET url == [row.url EXCEPT !.LongURL = newLongURL]
             written == Set(c, ShortURLNamespace, shortCode, url)
             upd == RepoUpdateLongURL(table, shortCode, newLongURL, fault)
         IN  IF upd.err # Nil
             THEN Result(upd.db, written, Nil, upd.err,
                         <<"repo.FindByShortCode", "cache.Set",
                           "repo.UpdateLongURL">>)
             ELSE Result(upd.db, written, url, Nil,
                         <<"repo.FindByShortCode", "cache.Set",
                           "repo.UpdateLongURL">>)

\* mutant: UpdateLongURL caches a record it builds anew, with no visits
UpdateCachesUncounted(table, c, shortCode, newLongURL, fault) ==
    LET row == FindByShortCode(table, shortCode, fault) IN
    IF row.err # Nil
    THEN Result(table, c, Nil, row.err, <<"repo.FindByShortCode">>)
    ELSE LET upd == RepoUpdateLongURL(table, shortCode, newLongURL, fault) IN
         IF upd.err # Nil
         THEN Result(upd.db, c, Nil, upd.err,
                     <<"repo.FindByShortCode", "repo.UpdateLongURL">>)
         ELSE LET url == URL(row.url.ID, newLongURL, shortCode,
                             row.url.CreatedAt, 0)
              IN  Result(upd.db, Set(c, ShortURLNamespace, shortCode, url),
                         url, Nil,
                         <<"repo.FindByShortCode", "repo.UpdateLongURL",
                           "cache.Set">>)

\* UpdateLongURL once both arguments have passed the checks
FindUpdateAndCache(table, c, shortCode, newLongURL, fault) ==
    LET row == FindByShortCode(table, shortCode, fault) IN
    IF row.err # Nil
    THEN Result(table, c, Nil, row.err, <<"repo.FindByShortCode">>)
    ELSE LET upd == RepoUpdateLongURL(table, shortCode, newLongURL, fault) IN
         IF upd.err # Nil
         THEN Result(upd.db, c, Nil, upd.err,
                     <<"repo.FindByShortCode", "repo.UpdateLongURL">>)
         ELSE LET url == [row.url EXCEPT !.LongURL = newLongURL]
              IN  Result(upd.db, Set(c, ShortURLNamespace, shortCode, url),
                         url, Nil,
                         <<"repo.FindByShortCode", "repo.UpdateLongURL",
                           "cache.Set">>)

\* mutant: UpdateLongURL without the checks of its arguments
UpdateLongURLUnchecked(table, c, shortCode, newLongURL, fault) ==
    FindUpdateAndCache(table, c, shortCode, newLongURL, fault)

UpdateLongURL(table, c, shortCode, newLongURL, fault) ==
    IF shortCode = ""
    THEN Result(table, c, Nil, ErrEmptyShortCode, <<>>)
    ELSE IF newLongURL = ""
    THEN Result(table, c, Nil, ErrEmptyLongURL, <<>>)
    ELSE FindUpdateAndCache(table, c, shortCode, newLongURL, fault)

-----------------------------------------------------------------------------
(* The service driven through its API, one call at a time *)

\* every short code a call can name: the custom ones and the generated ones
ShortCodes == CustomCodes \cup {GeneratedCodes[nanos] : nanos \in ClockReadings}

\* the statement a call can see fail
CreateFaults == {"none", "count", "insert"}
GetFaults == {"none", "select", "increment"}
UpdateFaults == {"none", "select", "count", "update"}

Init ==
    /\ cache \in {NewNamespaceLRU(capacity) : capacity \in Capacities}
    /\ db = <<>>
    /\ svc = NoServiceCall
    /\ last = NoCall
    /\ prev = Brief(NoCall)
    /\ accessOrder = <<>>
    /\ pc = [p \in Procs |-> "idle"]
    /\ call = [p \in Procs |-> NoCall]
    /\ mutex = NewRWMutex
    /\ race = NoRace

CallCreateShortURL(longURL, customShort, now, nanos, fault) ==
    \E r \in {CreateShortURL(db, cache, longURL, customShort, now, nanos, fault)} :
    /\ db' = r.db
    /\ cache' = r.cache
    /\ svc' = ServiceCall("CreateShortURL", customShort, longURL, r, svc)
    /\ UNCHANGED <<apiVars, lockVars>>

CallGetLongURL(shortCode, fault) ==
    \E r \in {GetLongURL(db, cache, shortCode, fault)} :
    /\ shortCode \in DOMAIN db => db[shortCode].Visits < MaxVisits
    /\ db' = r.db
    /\ cache' = r.cache
    /\ svc' = ServiceCall("GetLongURL", shortCode, Nil, r, svc)
    /\ UNCHANGED <<apiVars, lockVars>>

CallUpdateLongURL(shortCode, newLongURL, fault) ==
    \E r \in {UpdateLongURL(db, cache, shortCode, newLongURL, fault)} :
    /\ db' = r.db
    /\ cache' = r.cache
    /\ svc' = ServiceCall("UpdateLongURL", shortCode, newLongURL, r, svc)
    /\ UNCHANGED <<apiVars, lockVars>>

Next ==
    \/ \E longURL \in LongURLs \cup {""}, customShort \in CustomCodes \cup {""},
          now \in Times, nanos \in ClockReadings,
          fault \in CreateFaults :
            CallCreateShortURL(longURL, customShort, now, nanos, fault)
    \/ \E shortCode \in ShortCodes \cup {""},
          fault \in GetFaults :
            CallGetLongURL(shortCode, fault)
    \/ \E shortCode \in ShortCodes \cup {""}, newLongURL \in LongURLs \cup {""},
          fault \in UpdateFaults :
            CallUpdateLongURL(shortCode, newLongURL, fault)

Spec == Init /\ [][Next]_vars

-----------------------------------------------------------------------------
(* Properties of the cache (SpecCache) *)

\* the entries of the cache: composite key, namespace, key and value of every element
Entries(c) ==
    {[ck |-> compositeKey(c.queue[i].namespace, c.queue[i].key),
      namespace |-> c.queue[i].namespace,
      key |-> c.queue[i].key,
      value |-> c.queue[i].value] : i \in 1..Len(c.queue)}

Position(order, ck) == CHOOSE i \in 1..Len(order) : order[i] = ck

\* C1: for a cache constructed with a non-negative capacity, Size() never
\* exceeds the capacity, whatever calls were made.
C1_SizeWithinCapacity ==
    cache.capacity >= 0 => Size(cache) <= cache.capacity

C1_Witness ==
    /\ last.op = "Set"
    /\ last.removed # {}
    /\ cache.capacity >= 1
    /\ Size(cache) = cache.capacity

\* C2: a Set of a pair that is not present, into a cache holding exactly
\* capacity entries, removes exactly one entry, the one whose last access is
\* the oldest; every other entry stays, with its value.
C2_EvictsExactlyTheOldest ==
    [][\A namespace \in Namespaces, key \in Keys, value \in Values :
        (/\ ~Present(cache, namespace, key)
         /\ Size(cache) = cache.capacity
         /\ last'.op = "Set"
         /\ CallSet(namespace, key, value))
        =>
        LET ck == compositeKey(namespace, key)
            inserted == [ck |-> ck, namespace |-> namespace, key |-> key,
                         value |-> value]
            gone == (Entries(cache) \cup {inserted}) \ Entries(cache')
            oldest == Head(Touch(accessOrder, ck))
        IN  /\ Cardinality(gone) = 1
            /\ \A e \in gone : e.ck = oldest
            /\ Entries(cache') \subseteq (Entries(cache) \cup {inserted})
            /\ Size(cache') = Size(cache)
      ]_vars

C2_Witness ==
    /\ last.op = "Set"
    /\ Cardinality(last.removed) = 1
    /\ compositeKey(last.namespace, last.key) \notin last.removed
    /\ Size(cache) = cache.capacity
    /\ Size(cache) >= 2

\* C3: a Get that hits K, or a Set that overwrites K, makes K the most
\* recently used entry, and no Set ever evicts an entry while the cache keeps
\* an entry whose last access is older.
C3_RecentlyUsedSurvives ==
    [][/\ \A namespace \in Namespaces, key \in Keys :
            (/\ Present(cache, namespace, key)
             /\ last'.op = "Get"
             /\ CallGet(namespace, key))
            => compositeKey(cache'.queue[1].namespace, cache'.queue[1].key)
                   = compositeKey(namespace, key)
       /\ \A namespace \in Namespaces, key \in Keys, value \in Values :
            (last'.op = "Set" /\ CallSet(namespace, key, value))
            =>
            LET ck == compositeKey(namespace, key)
                order == Touch(accessOrder, ck)
                evicted == (DOMAIN cache.items \cup {ck}) \ DOMAIN cache'.items
            IN  /\ Present(cache, namespace, key)
                     => /\ evicted = {}
                        /\ compositeKey(cache'.queue[1].namespace,
                                        cache'.queue[1].key) = ck
                /\ \A x \in evicted, y \in DOMAIN cache'.items :
                     Position(order, x) < Position(order, y)
      ]_vars

\* a Get hit on the first-inserted entry, then a Set that evicted another one
C3_Witness ==
    /\ prev.op = "Get" /\ prev.found
    /\ last.op = "Set"
    /\ Cardinality(last.removed) = 1
    /\ Present(cache, prev.namespace, prev.key)
    /\ compositeKey(prev.namespace, prev.key) # compositeKey(last.namespace, last.key)
    /\ Size(cache) >= 2

\* C4 as stated: Set(ns, k, v) followed immediately by Get(ns, k) returns (v, true).
C4_RoundTripAnyCapacity ==
    [][\A namespace \in Namespaces, key \in Keys :
        (/\ last.op = "Set" /\ last.namespace = namespace /\ last.key = key
         /\ CallGet(namespace, key))
        => (last'.found /\ last'.value = last.value)
      ]_vars

\* C4, amended: in a cache of capacity at least 1, Set(ns, k, v) followed
\* immediately by Get(ns, k) returns (v, true).
C4_RoundTrip ==
    [][\A namespace \in Namespaces, key \in Keys :
        (/\ cache.capacity >= 1
         /\ last.op = "Set" /\ last.namespace = namespace /\ last.key = key
         /\ CallGet(namespace, key))
        => (last'.found /\ last'.value = last.value)
      ]_vars

\* a Get right after a Set of the same pair, the Set having evicted an entry
C4_Witness ==
    /\ prev.op = "Set"
    /\ last.op = "Get"
    /\ last.namespace = prev.namespace /\ last.key = prev.key
    /\ last.found /\ last.value = "v2"
    /\ Size(cache) = cache.capacity

\* C5: InvalidateNamespace(A) leaves no pair of namespace A that Get would
\* find, and removes or changes no entry that Get finds under another
\* namespace B.
C5_InvalidateNamespaceIsolated ==
    [][\A A \in Namespaces :
        (last'.op = "InvalidateNamespace" /\ CallInvalidateNamespace(A))
        => /\ \A key \in Keys : ~Get(cache', A, key).found
           /\ \A B \in Namespaces \ {A}, key \in Keys :
                Get(cache, B, key).found
                => /\ Get(cache', B, key).found
                   /\ Get(cache', B, key).value = Get(cache, B, key).value
      ]_vars

-----------------------------------------------------------------------------
(* Concurrent callers of the cache, one step per lock operation and per      *)
(* critical section                                                          *)

InitLock ==
    /\ cache = NewNamespaceLRU(MaxCapacity)
    /\ db = <<>>
    /\ svc = NoServiceCall
    /\ last = NoCall
    /\ prev = Brief(NoCall)
    /\ accessOrder = <<>>
    /\ pc = [p \in Procs |-> "idle"]
    /\ call = [p \in Procs |-> NoCall]
    /\ mutex = NewRWMutex
    /\ race = NoRace

Orderings(queue) ==
    {[i \in 1..Len(queue) |-> queue[f[i]]] :
        f \in {g \in [1..Len(queue) -> 1..Len(queue)] :
                 \A i, j \in 1..Len(queue) : i # j => g[i] # g[j]}}

\* a goroutine enters a method of the cache
Invoke(p, op, namespace, key, value) ==
    /\ pc[p] = "idle"
    /\ call' = [call EXCEPT ![p] =
                   [NoCall EXCEPT !.op = op, !.namespace = namespace,
                                  !.key = key, !.value = value]]
    /\ pc' = [pc EXCEPT ![p] = LockMode(op)]
    /\ UNCHANGED <<cache, mutex, race, apiVars, svcVars>>

\* c.mutex.Lock(), first half: the writer announces itself
LockAnnounce(p) ==
    /\ pc[p] = "Lock"
    /\ mutex.pending = 0 /\ mutex.writer = 0
    /\ mutex' = [mutex EXCEPT !.pending = p]
    /\ pc' = [pc EXCEPT ![p] = "LockWait"]
    /\ UNCHANGED <<cache, call, race, apiVars, svcVars>>

\* c.mutex.Lock(), second half: the readers have left
LockAcquire(p) ==
    /\ pc[p] = "LockWait"
    /\ mutex.readers = {}
    /\ mutex' = [mutex EXCEPT !.pending = 0, !.writer = p]
    /\ pc' = [pc EXCEPT ![p] = "Locked"]
    /\ UNCHANGED <<cache, call, race, apiVars, svcVars>>

\* the body of Set, Invalidate, InvalidateNamespace or Clear, under the lock
WriteBody(p) ==
    /\ pc[p] = "Locked"
    /\ cache' = CASE call[p].op = "Set" ->
                       Set(cache, call[p].namespace, call[p].key, call[p].value)
                  [] call[p].op = "Invalidate" ->
                       Invalidate(cache, call[p].namespace, call[p].key)
                  [] call[p].op = "InvalidateNamespace" ->
                       InvalidateNamespace(cache, call[p].namespace)
                  [] call[p].op = "Clear" -> Clear(cache)
    /\ pc' = [pc EXCEPT ![p] = "Unlock"]
    /\ UNCHANGED <<call, mutex, race, apiVars, svcVars>>

\* defer c.mutex.Unlock()
Unlock(p) ==
    /\ pc[p] = "Unlock"
    /\ mutex' = [mutex EXCEPT !.writer = 0]
    /\ pc' = [pc EXCEPT ![p] = "idle"]
    /\ call' = [call EXCEPT ![p] = NoCall]
    /\ UNCHANGED <<cache, race, apiVars, svcVars>>

\* c.mutex.RLock()
RLock(p) ==
    /\ pc[p] = "RLock"
    /\ mutex.pending = 0 /\ mutex.writer = 0
    /\ mutex' = [mutex EXCEPT !.readers = @ \cup {p}]
    /\ pc' = [pc EXCEPT ![p] = IF call[p].op = "Size" THEN "len" ELSE "lookup"]
    /\ UNCHANGED <<cache, call, race, apiVars, svcVars>>

\* Get: element, exists := c.items[compositeKey]
GetLookup(p) ==
    /\ pc[p] = "lookup"
    /\ LET found == Present(cache, call[p].namespace, call[p].key) IN
       /\ call' = [call EXCEPT ![p].found = found]
       /\ pc' = [pc EXCEPT ![p] = IF found THEN "MoveToFront" ELSE "RUnlock"]
    /\ UNCHANGED <<cache, mutex, race, apiVars, svcVars>>

\* Get: c.queue.MoveToFront(element) starts writing the links of the list
MoveToFrontBegin(p) ==
    /\ pc[p] = "MoveToFront"
    /\ LET others == {q \in Procs \ {p} : pc[q] = "moving"} IN
       race' = [race EXCEPT !.overlapping =
                   IF others = {} THEN @ ELSE @ \cup others \cup {p}]
    /\ pc' = [pc EXCEPT ![p] = "moving"]
    /\ UNCHANGED <<cache, call, mutex, apiVars, svcVars>>

\* Get: MoveToFront has written the links. Alone it moves the element to the
\* front; overlapping another MoveToFront it is a data race on the links,
\* which can leave the elements in any order
MoveToFrontEnd(p) ==
    /\ pc[p] = "moving"
    /\ LET ref == cache.items[compositeKey(call[p].namespace, call[p].key)]
           i == ElementIndex(cache.queue, ref)
       IN  /\ call' = [call EXCEPT ![p].value = cache.queue[i].value]
           /\ IF p \in race.overlapping
              THEN /\ \E queue \in Orderings(cache.queue) :
                        cache' = [cache EXCEPT !.queue = queue]
                   /\ race' = [overlapping |-> race.overlapping \ {p},
                               happened |-> TRUE]
              ELSE /\ cache' = Get(cache, call[p].namespace, call[p].key).cache
                   /\ race' = race
    /\ pc' = [pc EXCEPT ![p] = "RUnlock"]
    /\ UNCHANGED <<mutex, apiVars, svcVars>>

\* Size: return c.queue.Len()
SizeLen(p) ==
    /\ pc[p] = "len"
    /\ call' = [call EXCEPT ![p].size = Size(cache)]
    /\ pc' = [pc EXCEPT ![p] = "RUnlock"]
    /\ UNCHANGED <<cache, mutex, race, apiVars, svcVars>>

\* mutant: Get returns with the read lock still held
RUnlockKeepsLock(p) ==
    /\ pc[p] = "RUnlock"
    /\ pc' = [pc EXCEPT ![p] = "idle"]
    /\ call' = [call EXCEPT ![p] = NoCall]
    /\ UNCHANGED <<cache, mutex, race, apiVars, svcVars>>

\* defer c.mutex.RUnlock(); the Get of IncrementVisits that found the key is
\* followed by r.cache.Set of the value it returned
RUnlock(p) ==
    /\ pc[p] = "RUnlock"
    /\ mutex' = [mutex EXCEPT !.readers = @ \ {p}]
    /\ IF call[p].op = "IncrementVisits" /\ call[p].found
       THEN /\ pc' = [pc EXCEPT ![p] = "Lock"]
            /\ call' = [call EXCEPT ![p].op = "Set"]
       ELSE /\ pc' = [pc EXCEPT ![p] = "idle"]
            /\ call' = [call EXCEPT ![p] = NoCall]
    /\ UNCHANGED <<cache, race, apiVars, svcVars>>

NextLock ==
    \E p \in Procs :
        \/ \E namespace \in LockNamespaces, key \in LockKeys, value \in LockValues :
               Invoke(p, "Set", namespace, key, value)
        \/ \E namespace \in LockNamespaces, key \in LockKeys :
               \/ Invoke(p, "Get", namespace, key, Nil)
               \/ Invoke(p, "Invalidate", namespace, key, Nil)
        \/ \E namespace \in LockNamespaces :
               Invoke(p, "InvalidateNamespace", namespace, Nil, Nil)
        \/ Invoke(p, "Clear", Nil, Nil, Nil)
        \/ Invoke(p, "Size", Nil, Nil, Nil)
        \/ LockAnnounce(p)
        \/ LockAcquire(p)
        \/ WriteBody(p)
        \/ Unlock(p)
        \/ RLock(p)
        \/ GetLookup(p)
        \/ MoveToFrontBegin(p)
        \/ MoveToFrontEnd(p)
        \/ SizeLen(p)
        \/ RUnlock(p)

SpecLock == InitLock /\ [][NextLock]_vars

-----------------------------------------------------------------------------
(* Properties of the lock (SpecLock) *)

\* a goroutine is inside a section that writes the recency list
Mutating(p) == pc[p] \in {"Locked", "moving"}

\* C6: no two calls of the cache, two Gets included, are at the same time
\* inside a section that writes the recency list.
C6_ListWritersExcludeEachOther ==
    \A p, q \in Procs : (p # q /\ Mutating(p)) => ~Mutating(q)

-----------------------------------------------------------------------------
(* Properties of the service (Spec) *)

Range(seq) == {seq[i] : i \in 1..Len(seq)}

Cached(c, shortCode) == Get(c, ShortURLNamespace, shortCode)

\* C7 as stated: after a successful GetLongURL the cache holds the record
\* (capacity permitting), so that the next GetLongURL of the same code calls
\* only IncrementVisits.
C7_LookupPopulatesCache ==
    (/\ svc.op = "GetLongURL"
     /\ svc.err = Nil
     /\ cache.capacity >= 1)
    => /\ Cached(cache, svc.shortCode).found
       /\ Cached(cache, svc.shortCode).value.LongURL = svc.url.LongURL

\* C8 as stated: after a successful UpdateLongURL(code, newURL), the
\* GetLongURL(code) that follows immediately returns newURL without calling
\* FindByShortCode.
C8_UpdateThenLookupAnyCapacity ==
    [][\A shortCode \in ShortCodes, fault \in GetFaults :
        (/\ svc.op = "UpdateLongURL" /\ svc.err = Nil /\ svc.shortCode = shortCode
         /\ svc'.op = "GetLongURL"
         /\ CallGetLongURL(shortCode, fault))
        => /\ svc'.err = Nil
           /\ svc'.url.LongURL = svc.longURL
           /\ svc'.calls = <<"cache.Get", "repo.IncrementVisits">>
      ]_vars

\* C8, amended: with a cache of capacity at least 1, after a successful
\* UpdateLongURL(code, newURL), the GetLongURL(code) that follows immediately
\* returns newURL from the cache, without calling FindByShortCode.
C8_UpdateThenLookup ==
    [][\A shortCode \in ShortCodes, fault \in GetFaults :
        (/\ cache.capacity >= 1
         /\ svc.op = "UpdateLongURL" /\ svc.err = Nil /\ svc.shortCode = shortCode
         /\ svc'.op = "GetLongURL"
         /\ CallGetLongURL(shortCode, fault))
        => /\ svc'.err = Nil
           /\ svc'.url.LongURL = svc.longURL
           /\ svc'.calls = <<"cache.Get", "repo.IncrementVisits">>
      ]_vars

\* a lookup right after an update that changed the long URL of a cached record
C8_Witness ==
    /\ svc.op = "GetLongURL" /\ svc.after = "UpdateLongURL"
    /\ svc.err = Nil
    /\ svc.url.LongURL = "https://other.com"
    /\ svc.url.Visits = 2
    /\ "repo.FindByShortCode" \notin Range(svc.calls)

\* C9: CreateShortURL with a custom code the store already holds fails with
\* ErrShortCodeExists (with the error of the database when the existence
\* query itself fails), returns no record and leaves the table and the cache
\* as they were.
C9_DuplicateCodeRejected ==
    [][\A longURL \in LongURLs, customShort \in CustomCodes, now \in Times,
          nanos \in ClockReadings, fault \in CreateFaults :
        (/\ customShort \in DOMAIN db
         /\ svc'.op = "CreateShortURL" /\ svc'.longURL = longURL
         /\ CallCreateShortURL(longURL, customShort, now, nanos, fault))
        => /\ svc'.err = (IF fault = "count" THEN DBError ELSE ErrShortCodeExists)
           /\ svc'.url = Nil
           /\ db' = db
           /\ cache' = cache
      ]_vars

\* a rejected duplicate of a code that is stored and cached
C9_Witness ==
    /\ svc.op = "CreateShortURL"
    /\ svc.err = ErrShortCodeExists
    /\ svc.shortCode \in DOMAIN db
    /\ Cached(cache, svc.shortCode).found
    /\ db[svc.shortCode].LongURL # svc.longURL

\* C10: CreateShortURL with an empty long URL fails with ErrEmptyLongURL,
\* returns no record and calls neither the repository nor the cache,
\* whatever the custom code.
C10_EmptyLongURLRejected ==
    [][\A customShort \in CustomCodes \cup {""}, now \in Times,
          nanos \in ClockReadings, fault \in CreateFaults :
        (/\ svc'.op = "CreateShortURL" /\ svc'.longURL = ""
         /\ CallCreateShortURL("", customShort, now, nanos, fault))
        => /\ svc'.err = ErrEmptyLongURL
           /\ svc'.url = Nil
           /\ svc'.calls = <<>>
           /\ db' = db
           /\ cache' = cache
      ]_vars

C10_Witness ==
    /\ svc.op = "CreateShortURL"
    /\ svc.longURL = ""
    /\ svc.shortCode # ""
    /\ svc.err = ErrEmptyLongURL
    /\ svc.shortCode \notin DOMAIN db

-----------------------------------------------------------------------------
(* Properties of CreateShortURL (Spec) *)

\* C11: when Store fails inside CreateShortURL, the call returns the error of
\* Store itself and no record, performs no cache.Set and leaves the cache as
\* it was.
C11_StoreErrorPropagated ==
    [][(svc'.op = "CreateShortURL" /\ svc'.longURL # "")
       => \A now \in Times, nanos \in ClockReadings, fault \in CreateFaults :
            CallCreateShortURL(svc'.longURL, svc'.shortCode, now, nanos, fault)
            => \A stored \in {Store(db, URL(0, svc'.longURL,
                                            CodeFor(svc'.shortCode, nanos),
                                            now, 0), fault)} :
                 stored.err # Nil
                 => /\ svc'.err = stored.err
                    /\ svc'.url = Nil
                    /\ "cache.Set" \notin Range(svc'.calls)
                    /\ cache' = cache
      ]_vars

\* a failed INSERT of a code the table does not hold, the cache holding entries
C11_Witness ==
    /\ svc.op = "CreateShortURL"
    /\ svc.err = DBError
    /\ svc.longURL # ""
    /\ svc.shortCode = ""
    /\ svc.calls = <<"repo.Store">>
    /\ Size(cache) >= 1
    /\ Cardinality(DOMAIN db) = 1

\* C12 as stated: after a successful CreateShortURL the table holds a row for
\* the short code with Visits = 0 and the given long URL, and the cache holds
\* the returned record under ("SHORT", shortCode).
C12_CreateStoresAndCachesAnyCapacity ==
    [][\A longURL \in LongURLs, customShort \in CustomCodes \cup {""},
          now \in Times, nanos \in ClockReadings, fault \in CreateFaults :
        (/\ svc'.op = "CreateShortURL" /\ svc'.longURL = longURL
         /\ svc'.shortCode = customShort /\ svc'.err = Nil
         /\ CallCreateShortURL(longURL, customShort, now, nanos, fault))
        => LET shortCode == svc'.url.ShortCode IN
           /\ shortCode \in DOMAIN db'
           /\ db'[shortCode].Visits = 0
           /\ db'[shortCode].LongURL = longURL
           /\ Cached(cache', shortCode).found
           /\ Cached(cache', shortCode).value = svc'.url
      ]_vars

\* C12, amended: with a cache of capacity at least 1, after a successful
\* CreateShortURL the table holds a row for the short code with Visits = 0
\* and the given long URL, and the cache holds the returned record under
\* ("SHORT", shortCode).
C12_CreateStoresAndCaches ==
    [][\A longURL \in LongURLs, customShort \in CustomCodes \cup {""},
          now \in Times, nanos \in ClockReadings, fault \in CreateFaults :
        (/\ cache.capacity >= 1
         /\ svc'.op = "CreateShortURL" /\ svc'.longURL = longURL
         /\ svc'.shortCode = customShort /\ svc'.err = Nil
         /\ CallCreateShortURL(longURL, customShort, now, nanos, fault))
        => LET shortCode == svc'.url.ShortCode IN
           /\ shortCode \in DOMAIN db'
           /\ db'[shortCode].Visits = 0
           /\ db'[shortCode].LongURL = longURL
           /\ Cached(cache', shortCode).found
           /\ Cached(cache', shortCode).value = svc'.url
      ]_vars

\* a successful create into a full cache, which evicted another code
C12_Witness ==
    /\ svc.op = "CreateShortURL"
    /\ svc.err = Nil
    /\ cache.capacity >= 1
    /\ Size(cache) = cache.capacity
    /\ Cardinality(DOMAIN db) > Size(cache)
    /\ Cached(cache, svc.url.ShortCode).found
    /\ db[svc.url.ShortCode].Visits = 0

-----------------------------------------------------------------------------
(* CreateShortURL over many readings of the clock and several custom codes  *)

InitCode ==
    /\ cache = NewNamespaceLRU(MaxCapacity)
    /\ db = <<>>
    /\ svc = NoServiceCall
    /\ last = NoCall
    /\ prev = Brief(NoCall)
    /\ accessOrder = <<>>
    /\ pc = [p \in Procs |-> "idle"]
    /\ call = [p \in Procs |-> NoCall]
    /\ mutex = NewRWMutex
    /\ race = NoRace

CreateGenerated(longURL, nanos) ==
    /\ Cardinality(DOMAIN db) < MaxCodes
    /\ \E now \in Times : CallCreateShortURL(longURL, "", now, nanos, "none")

CreateCustom(longURL, customShort) ==
    /\ Cardinality(DOMAIN db) < MaxCodes
    /\ \E now \in Times, nanos \in ClockReadings :
          CallCreateShortURL(longURL, customShort, now, nanos, "none")

NextCode ==
    \/ \E nanos \in WideClockReadings : CreateGenerated("https://example.com", nanos)
    \/ \E customShort \in WideCustomCodes :
          CreateCustom("https://example.com", customShort)

SpecCode == InitCode /\ [][NextCode]_vars

\* the symbols of a string
Symbols(str) == {SubSeq(str, i, i) : i \in 1..Len(str)}

Alphanumeric ==
    Symbols("abcdefghijklmnopqrstuvwxyz")
        \cup Symbols("ABCDEFGHIJKLMNOPQRSTUVWXYZ")
        \cup Symbols("0123456789")

\* C13: the short code of a record CreateShortURL produced is the custom
\* code when one was given; otherwise it has exactly 6 characters, each one
\* of the 62 alphanumeric symbols.
C13_ShortCodeCustomOrGenerated ==
    (svc.op = "CreateShortURL" /\ svc.err = Nil)
    => IF svc.shortCode # ""
       THEN svc.url.ShortCode = svc.shortCode
       ELSE /\ Len(svc.url.ShortCode) = 6
            /\ Symbols(svc.url.ShortCode) \subseteq Symbols(charset)
            /\ Symbols(charset) = Alphanumeric
            /\ Cardinality(Symbols(charset)) = 62

\* a generated code whose readings run past the end of the alphabet
C13_Witness ==
    /\ svc.op = "CreateShortURL"
    /\ svc.err = Nil
    /\ svc.shortCode = ""
    /\ svc.url.ShortCode = "789abc"
    /\ "789abc" \in DOMAIN db

-----------------------------------------------------------------------------
(* Properties of GetLongURL (Spec) *)

\* the record without its visit counter
SansVisits(url) == [url EXCEPT !.Visits = 0]

\* C14: GetLongURL("") fails with ErrEmptyShortCode, returns no record and
\* calls neither the cache nor the repository.
C14_EmptyShortCodeRejected ==
    [][(/\ svc'.op = "GetLongURL" /\ svc'.shortCode = ""
        /\ \E fault \in GetFaults : CallGetLongURL("", fault))
       => /\ svc'.err = ErrEmptyShortCode
          /\ svc'.url = Nil
          /\ svc'.calls = <<>>
          /\ db' = db
          /\ cache' = cache
      ]_vars

C14_Witness ==
    /\ svc.op = "GetLongURL"
    /\ svc.shortCode = ""
    /\ svc.err = ErrEmptyShortCode
    /\ Cardinality(DOMAIN db) >= 2
    /\ Size(cache) >= 1

\* C15: when GetLongURL finds the short code in the cache, it returns the
\* record the cache holds, does not call FindByShortCode, and calls
\* IncrementVisits exactly once.
C15_HitServedFromCache ==
    [][(/\ svc'.op = "GetLongURL" /\ svc'.shortCode # ""
        /\ Cached(cache, svc'.shortCode).found
        /\ \E fault \in GetFaults : CallGetLongURL(svc'.shortCode, fault))
       => /\ svc'.err = Nil
          /\ svc'.url = Cached(cache', svc'.shortCode).value
          /\ SansVisits(svc'.url) = SansVisits(Cached(cache, svc'.shortCode).value)
          /\ svc'.calls = <<"cache.Get", "repo.IncrementVisits">>
      ]_vars

\* a hit on a code while the cache holds two codes
C15_Witness ==
    /\ svc.op = "GetLongURL"
    /\ svc.err = Nil
    /\ svc.calls = <<"cache.Get", "repo.IncrementVisits">>
    /\ Size(cache) = 2
    /\ svc.url.LongURL = "https://example.com"

\* C16: an error of IncrementVisits never fails GetLongURL: on a hit the
\* cached record, on a miss the stored row, is returned with no error.
C16_IncrementFailureSwallowed ==
    [][(/\ svc'.op = "GetLongURL" /\ svc'.shortCode # ""
        /\ (Cached(cache, svc'.shortCode).found \/ svc'.shortCode \in DOMAIN db)
        /\ CallGetLongURL(svc'.shortCode, "increment"))
       => /\ svc'.err = Nil
          /\ "repo.IncrementVisits" \in Range(svc'.calls)
          /\ svc'.url = IF Cached(cache, svc'.shortCode).found
                         THEN Cached(cache, svc'.shortCode).value
                         ELSE db[svc'.shortCode]
          /\ db' = db
      ]_vars

\* a hit whose visit was not counted: the counter of the code is still 0
C16_Witness ==
    /\ svc.op = "GetLongURL"
    /\ svc.err = Nil
    /\ svc.calls = <<"cache.Get", "repo.IncrementVisits">>
    /\ db[svc.shortCode].Visits = 0
    /\ svc.url.Visits = 0

\* C17 as stated: on a hit the returned record carries the Visits the cached
\* entry had before the call, while the counter of the table is incremented.
C17_HitReturnsOldVisits ==
    [][(/\ svc'.op = "GetLongURL" /\ svc'.shortCode # ""
        /\ Cached(cache, svc'.shortCode).found
        /\ CallGetLongURL(svc'.shortCode, "none"))
       => /\ svc'.url.Visits = Cached(cache, svc'.shortCode).value.Visits
          /\ db'[svc'.shortCode].Visits = db[svc'.shortCode].Visits + 1
      ]_vars

\* C17, amended: on a hit, when IncrementVisits succeeds the counter of the
\* table and the Visits of the returned record, which is the cached record,
\* are both one more than before; when IncrementVisits fails both are as
\* before.
C17_HitReturnsCountedVisits ==
    [][\A fault \in GetFaults :
        (/\ svc'.op = "GetLongURL" /\ svc'.shortCode # ""
         /\ Cached(cache, svc'.shortCode).found
         /\ CallGetLongURL(svc'.shortCode, fault))
        => LET counted == IF fault = "increment" THEN 0 ELSE 1 IN
           /\ svc'.url.Visits = Cached(cache, svc'.shortCode).value.Visits + counted
           /\ Cached(cache', svc'.shortCode).value.Visits = svc'.url.Visits
           /\ db'[svc'.shortCode].Visits = db[svc'.shortCode].Visits + counted
      ]_vars

\* the second counted hit in a row on one code
C17_Witness ==
    /\ svc.op = "GetLongURL" /\ svc.after = "GetLongURL"
    /\ svc.err = Nil
    /\ svc.calls = <<"cache.Get", "repo.IncrementVisits">>
    /\ svc.url.Visits = 2
    /\ db[svc.shortCode].Visits = 2

\* C18: after CreateShortURL(code) and a successful UpdateLongURL(code), the
\* first GetLongURL(code) returns a record with Visits = 1, the count the
\* table holds after the call.
C18_FirstLookupCountsVisit ==
    [][(/\ svc.op = "UpdateLongURL" /\ svc.err = Nil
        /\ svc.after = "CreateShortURL"
        /\ svc'.op = "GetLongURL" /\ svc'.shortCode = svc.shortCode
        /\ CallGetLongURL(svc.shortCode, "none"))
       => /\ svc'.err = Nil
          /\ svc'.url.Visits = 1
          /\ db'[svc.shortCode].Visits = 1
      ]_vars

\* C19: GetLongURL of a non-empty short code that neither the cache nor the
\* table holds fails with ErrShortCodeNotFound (with the error of the
\* database when the SELECT itself fails), returns no record, does not call
\* IncrementVisits and leaves the table and the cache without the code.
C19_UnknownCodeNotFound ==
    [][\A fault \in GetFaults :
        (/\ svc'.op = "GetLongURL" /\ svc'.shortCode # ""
         /\ ~Cached(cache, svc'.shortCode).found
         /\ svc'.shortCode \notin DOMAIN db
         /\ CallGetLongURL(svc'.shortCode, fault))
        => /\ svc'.err = (IF fault = "select" THEN DBError
                                               ELSE ErrShortCodeNotFound)
           /\ svc'.url = Nil
           /\ svc'.calls = <<"cache.Get", "repo.FindByShortCode">>
           /\ ~Cached(cache', svc'.shortCode).found
           /\ cache' = cache
           /\ db' = db
      ]_vars

\* a lookup of an unknown code while the table and the cache hold another
C19_Witness ==
    /\ svc.op = "GetLongURL"
    /\ svc.err = ErrShortCodeNotFound
    /\ svc.shortCode \notin DOMAIN db
    /\ Cardinality(DOMAIN db) >= 1
    /\ Size(cache) >= 1

-----------------------------------------------------------------------------
(* Properties of UpdateLongURL (Spec) *)

\* C20: UpdateLongURL with an empty short code fails with ErrEmptyShortCode,
\* and with a non-empty short code and an empty long URL fails with
\* ErrEmptyLongURL; neither calls the repository or the cache, so the row and
\* the cached record keep their long URL.
C20_UpdateEmptyArgumentsRejected ==
    [][(/\ svc'.op = "UpdateLongURL"
        /\ (svc'.shortCode = "" \/ svc'.longURL = "")
        /\ \E fault \in UpdateFaults :
              CallUpdateLongURL(svc'.shortCode, svc'.longURL, fault))
       => /\ svc'.err = (IF svc'.shortCode = "" THEN ErrEmptyShortCode
                                                ELSE ErrEmptyLongURL)
          /\ svc'.url = Nil
          /\ svc'.calls = <<>>
          /\ db' = db
          /\ cache' = cache
      ]_vars

\* an update to the empty long URL of a code that is stored and cached
C20_Witness ==
    /\ svc.op = "UpdateLongURL"
    /\ svc.err = ErrEmptyLongURL
    /\ svc.shortCode \in DOMAIN db
    /\ db[svc.shortCode].LongURL # ""
    /\ Cached(cache, svc.shortCode).found
    /\ Cached(cache, svc.shortCode).value.LongURL = db[svc.shortCode].LongURL

\* C21: UpdateLongURL of a short code the table does not hold fails with
\* ErrShortCodeNotFound (with the error of the database when the SELECT
\* itself fails) and returns no record; the repository is asked, not the
\* cache, and the table and the cache are left as they were.
C21_UpdateUnknownCodeNotFound ==
    [][\A fault \in UpdateFaults :
        (/\ svc'.op = "UpdateLongURL"
         /\ svc'.shortCode # "" /\ svc'.longURL # ""
         /\ svc'.shortCode \notin DOMAIN db
         /\ CallUpdateLongURL(svc'.shortCode, svc'.longURL, fault))
        => /\ svc'.err = (IF fault = "select" THEN DBError
                                               ELSE ErrShortCodeNotFound)
           /\ svc'.url = Nil
           /\ svc'.calls = <<"repo.FindByShortCode">>
           /\ db' = db
           /\ cache' = cache
      ]_vars

\* an update of an unknown code while the table and the cache hold another
C21_Witness ==
    /\ svc.op = "UpdateLongURL"
    /\ svc.err = ErrShortCodeNotFound
    /\ svc.shortCode \notin DOMAIN db
    /\ Cardinality(DOMAIN db) >= 1
    /\ Size(cache) >= 1

\* C22: when the repository's UpdateLongURL fails after FindByShortCode found
\* the row, UpdateLongURL returns that error and no record, and the cache is
\* as it was before the call, whether it held the short code or not.
C22_UpdateErrorPropagated ==
    [][\A fault \in UpdateFaults :
        (/\ svc'.op = "UpdateLongURL"
         /\ svc'.shortCode # "" /\ svc'.longURL # ""
         /\ FindByShortCode(db, svc'.shortCode, fault).err = Nil
         /\ RepoUpdateLongURL(db, svc'.shortCode, svc'.longURL, fault).err # Nil
         /\ CallUpdateLongURL(svc'.shortCode, svc'.longURL, fault))
        => /\ svc'.err = RepoUpdateLongURL(db, svc'.shortCode, svc'.longURL,
                                           fault).err
           /\ svc'.url = Nil
           /\ "cache.Set" \notin Range(svc'.calls)
           /\ cache' = cache
           /\ Cached(cache', svc'.shortCode) = Cached(cache, svc'.shortCode)
      ]_vars

\* a failed update of a code whose cached record has another long URL
C22_Witness ==
    /\ svc.op = "UpdateLongURL"
    /\ svc.err = DBError
    /\ svc.calls = <<"repo.FindByShortCode", "repo.UpdateLongURL">>
    /\ Cached(cache, svc.shortCode).found
    /\ Cached(cache, svc.shortCode).value.LongURL # svc.longURL
    /\ db[svc.shortCode].LongURL # svc.longURL

-----------------------------------------------------------------------------
(* Properties of the table (Spec) *)

\* C24: the Visits of a stored short code never decreases: every call of the
\* service changes it by 0 or by 1, and a GetLongURL whose IncrementVisits
\* succeeds changes it by exactly 1.
C24_VisitsNeverDecrease ==
    [][/\ \A shortCode \in DOMAIN db :
            /\ shortCode \in DOMAIN db'
            /\ db'[shortCode].Visits - db[shortCode].Visits \in {0, 1}
       /\ \A fault \in GetFaults \ {"increment"} :
            (/\ svc'.op = "GetLongURL"
             /\ svc'.shortCode \in DOMAIN db
             /\ "repo.IncrementVisits" \in Range(svc'.calls)
             /\ CallGetLongURL(svc'.shortCode, fault))
            => /\ db'[svc'.shortCode].Visits = db[svc'.shortCode].Visits + 1
               /\ \A other \in DOMAIN db \ {svc'.shortCode} :
                     db'[other].Visits = db[other].Visits
      ]_vars

\* a code that was visited twice and then had its long URL updated
C24_Witness ==
    /\ svc.op = "UpdateLongURL"
    /\ svc.err = Nil
    /\ db[svc.shortCode].Visits = 2
    /\ svc.url.Visits = 2
    /\ Cardinality(DOMAIN db) >= 2

\* C28: the record a successful CreateShortURL returns, and puts into the
\* cache, carries the ID the table gave to the row of its short code, and
\* the rows of two short codes never have the same ID.
C28_CreateReturnsAssignedID ==
    /\ (svc.op = "CreateShortURL" /\ svc.err = Nil)
         => /\ svc.url.ID = db[svc.url.ShortCode].ID
            /\ Cached(cache, svc.url.ShortCode).found
                  => Cached(cache, svc.url.ShortCode).value.ID
                        = db[svc.url.ShortCode].ID
    /\ \A x, y \in DOMAIN db : x # y => db[x].ID # db[y].ID

-----------------------------------------------------------------------------
(* More properties of the cache (SpecCache) *)

\* C29: a Set of a pair that is present replaces the value and neither
\* changes Size() nor evicts an entry, the cache being full or not.
C29_OverwriteKeepsSize ==
    [][\A namespace \in Namespaces, key \in Keys, value \in Values :
        (/\ last'.op = "Set"
         /\ Present(cache, namespace, key)
         /\ CallSet(namespace, key, value))
        => /\ Size(cache') = Size(cache)
           /\ DOMAIN cache'.items = DOMAIN cache.items
           /\ Get(cache', namespace, key).found
           /\ Get(cache', namespace, key).value = value
           /\ \A e \in Entries(cache) :
                 e.ck # compositeKey(namespace, key) => e \in Entries(cache')
      ]_vars

\* an overwrite with another value in a full cache of two entries
C29_Witness ==
    /\ last.op = "Set"
    /\ prev.op = "Set"
    /\ prev.namespace = last.namespace /\ prev.key = last.key
    /\ last.removed = {}
    /\ last.value = "v2"
    /\ Size(cache) = cache.capacity
    /\ Size(cache) = 2
    /\ accessOrder[1] # compositeKey(last.namespace, last.key)

\* the pairs a caller can name
Pairs == Namespaces \X Keys

\* C30: Invalidate(namespace, key) removes the entry of the pair when Get
\* finds it (Size() goes down by one and Get no longer finds the pair) and
\* changes nothing when Get does not find it; every other pair keeps its
\* presence and its value.
C30_InvalidateExactlyOne ==
    [][\A namespace \in Namespaces, key \in Keys :
        (last'.op = "Invalidate" /\ CallInvalidate(namespace, key))
        => /\ IF Get(cache, namespace, key).found
              THEN /\ Size(cache') = Size(cache) - 1
                   /\ ~Get(cache', namespace, key).found
              ELSE cache' = cache
           /\ \A pair \in Pairs \ {<<namespace, key>>} :
                 /\ Get(cache', pair[1], pair[2]).found
                        = Get(cache, pair[1], pair[2]).found
                 /\ Get(cache', pair[1], pair[2]).value
                        = Get(cache, pair[1], pair[2]).value
      ]_vars

-----------------------------------------------------------------------------
(* The repository called directly, next to the service that fills the cache *)

IncrementFaults == {"none", "increment"}
RepoUpdateFaults == {"none", "count", "update"}

\* what a method of the repository returned, in the shape of a service result
RepoReturn(url, err) == [url |-> url, err |-> err, calls |-> <<>>]

CallStore(longURL, shortCode, now, fault) ==
    \E r \in {Store(db, URL(0, longURL, shortCode, now, 0), fault)} :
    /\ db' = r.db
    /\ svc' = ServiceCall("repo.Store", shortCode, longURL,
                          RepoReturn(r.url, r.err), svc)
    /\ UNCHANGED <<cache, apiVars, lockVars>>

CallIncrementVisits(shortCode, fault) ==
    \E r \in {IncrementVisits(db, cache, shortCode, fault)} :
    /\ shortCode \in DOMAIN db => db[shortCode].Visits < MaxVisits
    /\ db' = r.db
    /\ cache' = r.cache
    /\ svc' = ServiceCall("repo.IncrementVisits", shortCode, Nil,
                          RepoReturn(Nil, r.err), svc)
    /\ UNCHANGED <<apiVars, lockVars>>

CallRepoUpdateLongURL(shortCode, newLongURL, fault) ==
    \E r \in {RepoUpdateLongURL(db, shortCode, newLongURL, fault)} :
    /\ db' = r.db
    /\ svc' = ServiceCall("repo.UpdateLongURL", shortCode, newLongURL,
                          RepoReturn(Nil, r.err), svc)
    /\ UNCHANGED <<cache, apiVars, lockVars>>

NextRepo ==
    \/ \E longURL \in LongURLs, shortCode \in ShortCodes, now \in Times,
          fault \in CreateFaults :
            CallStore(longURL, shortCode, now, fault)
    \/ \E shortCode \in ShortCodes, fault \in IncrementFaults :
            CallIncrementVisits(shortCode, fault)
    \/ \E shortCode \in ShortCodes, newLongURL \in LongURLs,
          fault \in RepoUpdateFaults :
            CallRepoUpdateLongURL(shortCode, newLongURL, fault)
    \/ \E longURL \in LongURLs, customShort \in CustomCodes \cup {""},
          now \in Times, nanos \in ClockReadings :
            CallCreateShortURL(longURL, customShort, now, nanos, "none")

SpecRepo == InitCode /\ [][NextRepo]_vars

\* C23: a successful UpdateLongURL of the repository changes only the LongURL
\* of the row of its short code: the row's ID, ShortCode, CreatedAt and
\* Visits stay, no row is added or removed and every other row is as it was.
C23_UpdateChangesOnlyLongURL ==
    [][(svc'.op = "repo.UpdateLongURL" /\ svc'.err = Nil)
        => /\ svc'.shortCode \in DOMAIN db
           /\ DOMAIN db' = DOMAIN db
           /\ \A other \in DOMAIN db \ {svc'.shortCode} : db'[other] = db[other]
           /\ db'[svc'.shortCode].LongURL = svc'.longURL
           /\ db'[svc'.shortCode].ID = db[svc'.shortCode].ID
           /\ db'[svc'.shortCode].ShortCode = db[svc'.shortCode].ShortCode
           /\ db'[svc'.shortCode].CreatedAt = db[svc'.shortCode].CreatedAt
           /\ db'[svc'.shortCode].Visits = db[svc'.shortCode].Visits
      ]_vars

\* a direct update of a visited row among others; the cached record still has
\* the long URL the row had before
C23_Witness ==
    /\ svc.op = "repo.UpdateLongURL"
    /\ svc.err = Nil
    /\ Cardinality(DOMAIN db) >= 2
    /\ db[svc.shortCode].LongURL = svc.longURL
    /\ db[svc.shortCode].Visits >= 1
    /\ Cached(cache, svc.shortCode).found
    /\ Cached(cache, svc.shortCode).value.LongURL # svc.longURL

\* C25 as stated: IncrementVisits for a short code without a row returns an
\* error.
C25_ZeroRowsIsAnError ==
    [][(svc'.op = "repo.IncrementVisits" /\ svc'.shortCode \notin DOMAIN db)
        => svc'.err # Nil
      ]_vars

\* C25: IncrementVisits returns an error exactly when the UPDATE statement
\* itself fails, and then it is the database's error; an UPDATE that affects
\* no row, the short code having no row, returns no error.
C25_IncrementFailsOnlyOnFault ==
    [][\A fault \in IncrementFaults :
        (/\ svc'.op = "repo.IncrementVisits"
         /\ CallIncrementVisits(svc'.shortCode, fault))
        => /\ svc'.err # Nil <=> fault = "increment"
           /\ svc'.err # Nil => svc'.err = DBError
      ]_vars

\* no error for a short code without a row, in a table whose other rows have
\* been counted
C25_Witness ==
    /\ svc.op = "repo.IncrementVisits"
    /\ svc.err = Nil
    /\ svc.shortCode \notin DOMAIN db
    /\ \E other \in DOMAIN db : db[other].Visits >= 1

\* C26: IncrementVisits for a short code without a row leaves every row and
\* every cache entry, and the order of the cache, as they were; it returns no
\* error unless the UPDATE statement itself fails.
C26_IncrementAbsentChangesNothing ==
    [][\A fault \in IncrementFaults :
        (/\ svc'.op = "repo.IncrementVisits"
         /\ svc'.shortCode \notin DOMAIN db
         /\ CallIncrementVisits(svc'.shortCode, fault))
        => /\ db' = db
           /\ cache' = cache
           /\ fault = "none" => svc'.err = Nil
      ]_vars

\* the call on a table and a cache that hold other short codes
C26_Witness ==
    /\ svc.op = "repo.IncrementVisits"
    /\ svc.err = Nil
    /\ svc.shortCode \notin DOMAIN db
    /\ Cardinality(DOMAIN db) >= 1
    /\ Size(cache) >= 1
    /\ \E other \in DOMAIN db : Cached(cache, other).found

-----------------------------------------------------------------------------
(* CreateShortURL called by several goroutines at once: each statement that *)
(* Store sends to the database is a step of its own, and the statements of  *)
(* different calls interleave. Here db is the table by primary key, the     *)
(* sequence of its rows, so that two rows with one short code can be told   *)
(* apart, and svc counts, for each short code, the calls that returned      *)
(* success.                                                                 *)

\* the error of SQLite for an INSERT that the unique index rejects
ErrUniqueConstraint == "UNIQUE constraint failed: url_models.short_code"

\* SELECT COUNT(*) FROM url_models WHERE short_code = ?
CountRows(rows, shortCode) ==
    Cardinality({id \in DOMAIN rows : rows[id].ShortCode = shortCode})

\* mutant: the table has no unique index on short_code
InsertRowNoIndex(rows, model) ==
    [rows |-> Append(rows, [model EXCEPT !.ID = Len(rows) + 1]), err |-> Nil]

\* INSERT INTO url_models, a table with `uniqueIndex` on short_code
InsertRow(rows, model) ==
    IF CountRows(rows, model.ShortCode) > 0
    THEN [rows |-> rows, err |-> ErrUniqueConstraint]
    ELSE [rows |-> Append(rows, [model EXCEPT !.ID = Len(rows) + 1]),
          err |-> Nil]

\* a call in progress: the URL it built and the error it is about to return
Creating(url, err) == [op |-> "CreateShortURL", url |-> url, err |-> err]

InitStore ==
    /\ cache = NewNamespaceLRU(MaxCapacity)
    /\ db = <<>>
    /\ svc = [shortCode \in ShortCodes |-> 0]
    /\ last = NoCall
    /\ prev = Brief(NoCall)
    /\ accessOrder = <<>>
    /\ pc = [p \in Procs |-> "idle"]
    /\ call = [p \in Procs |-> NoCall]
    /\ mutex = NewRWMutex
    /\ race = NoRace

\* the check of the long URL, the choice of the short code, url := &URL{...}
CreateBegin(p, longURL, customShort, now, nanos) ==
    /\ pc[p] = "idle"
    /\ IF longURL = ""
       THEN /\ call' = [call EXCEPT ![p] = Creating(Nil, ErrEmptyLongURL)]
            /\ pc' = [pc EXCEPT ![p] = "return"]
       ELSE /\ call' = [call EXCEPT ![p] =
                          Creating(URL(0, longURL, CodeFor(customShort, nanos),
                                       now, 0), Nil)]
            /\ pc' = [pc EXCEPT ![p] = "count"]
    /\ UNCHANGED <<cache, db, svc, apiVars, mutex, race>>

\* Store: the count query and `if count > 0`
StoreCount(p) ==
    /\ pc[p] = "count"
    /\ IF CountRows(db, call[p].url.ShortCode) > 0
       THEN /\ call' = [call EXCEPT ![p].err = ErrShortCodeExists]
            /\ pc' = [pc EXCEPT ![p] = "return"]
       ELSE /\ pc' = [pc EXCEPT ![p] = "insert"]
            /\ UNCHANGED call
    /\ UNCHANGED <<cache, db, svc, apiVars, mutex, race>>

\* Store: the INSERT and `if result.Error != nil`
StoreInsert(p) ==
    /\ pc[p] = "insert"
    /\ \E r \in {InsertRow(db, call[p].url)} :
        /\ db' = r.rows
        /\ IF r.err # Nil
           THEN /\ call' = [call EXCEPT ![p].err = r.err]
                /\ pc' = [pc EXCEPT ![p] = "return"]
           ELSE /\ pc' = [pc EXCEPT ![p] = "cache"]
                /\ UNCHANGED call
    /\ UNCHANGED <<cache, svc, apiVars, mutex, race>>

\* s.cache.Set(ShortURLNamespace, shortCode, url), under the cache's mutex
CreateCacheSet(p) ==
    /\ pc[p] = "cache"
    /\ cache' = Set(cache, ShortURLNamespace, call[p].url.ShortCode, call[p].url)
    /\ pc' = [pc EXCEPT ![p] = "return"]
    /\ UNCHANGED <<db, svc, call, apiVars, mutex, race>>

\* return url, nil or return nil, err
CreateReturn(p) ==
    /\ pc[p] = "return"
    /\ svc' = IF call[p].err = Nil
              THEN [svc EXCEPT ![call[p].url.ShortCode] = @ + 1]
              ELSE svc
    /\ pc' = [pc EXCEPT ![p] = "idle"]
    /\ call' = [call EXCEPT ![p] = NoCall]
    /\ UNCHANGED <<cache, db, apiVars, mutex, race>>

NextStore ==
    \E p \in Procs :
        \/ \E longURL \in LongURLs \cup {""}, customShort \in CustomCodes \cup {""},
              now \in Times, nanos \in ClockReadings :
                CreateBegin(p, longURL, customShort, now, nanos)
        \/ StoreCount(p)
        \/ StoreInsert(p)
        \/ CreateCacheSet(p)
        \/ CreateReturn(p)

SpecStore == InitStore /\ [][NextStore]_vars

\* C27: under every interleaving of concurrent CreateShortURL calls the table
\* never holds two rows with one short code, and of all the calls for one
\* short code at most one returns success, whether they are still running or
\* have returned.
C27_ShortCodeUnique ==
    /\ \A id, other \in DOMAIN db :
          db[id].ShortCode = db[other].ShortCode => id = other
    /\ \A shortCode \in ShortCodes :
          svc[shortCode]
            + Cardinality({p \in Procs :
                             /\ pc[p] \in {"cache", "return"}
                             /\ call[p].err = Nil
                             /\ call[p].url.ShortCode = shortCode}) <= 1

\* two calls for one custom code that both passed the count query: the INSERT
\* of one succeeded and the unique index rejected the INSERT of the other
C27_Witness ==
    \E p, q \in Procs :
        /\ pc[p] = "return"
        /\ call[p].err = ErrUniqueConstraint
        /\ call[p].url.ShortCode \in CustomCodes
        /\ pc[q] \in {"cache", "return"}
        /\ call[q].err = Nil
        /\ call[q].url.ShortCode = call[p].url.ShortCode
        /\ CountRows(db, call[p].url.ShortCode) = 1

-----------------------------------------------------------------------------
(* Clear, the composite key and the two structures of the cache (SpecCache) *)

\* Set of every pair of a set, in some order
RECURSIVE SetEach(_, _, _)
SetEach(c, pairs, value) ==
    IF pairs = {}
    THEN c
    ELSE LET pair == CHOOSE x \in pairs : TRUE
         IN  SetEach(Set(c, pair[1], pair[2], value), pairs \ {pair}, value)

\* whether a new cache of a capacity keeps every pair of every set of up to
\* capacity pairs that are Set one after the other
NewCacheKeeps ==
    [capacity \in Capacities |->
        \A pairs \in SUBSET Pairs :
            Cardinality(pairs) <= capacity
            => \A pair \in pairs :
                  Get(SetEach(NewNamespaceLRU(capacity), pairs, "v1"),
                      pair[1], pair[2]).found]

\* C31: after Clear, Size is 0 and Get finds no (namespace, key), whatever
\* the cache held; the capacity is the one it had: the cache is as
\* NewNamespaceLRU made it, and Sets of up to capacity new pairs are all
\* kept, none is evicted.
C31_ClearEmpties ==
    [][last'.op = "Clear"
        => /\ Size(cache') = 0
           /\ \A pair \in Pairs : ~Get(cache', pair[1], pair[2]).found
           /\ cache'.capacity = cache.capacity
           /\ cache' = NewNamespaceLRU(cache.capacity)
           /\ NewCacheKeeps[cache'.capacity]
      ]_vars

\* Clear of a full cache of capacity 2
C31_Witness ==
    /\ last.op = "Clear"
    /\ Cardinality(last.removed) = 2
    /\ cache.capacity = 2
    /\ Size(cache) = 0

-----------------------------------------------------------------------------
(* Concurrent callers of the cache under a fair scheduler. A goroutine that  *)
(* can run does run (weak fairness of the steps that need no lock). A        *)
(* goroutine waiting in Lock or RLock gets the lock if it is free again and  *)
(* again (strong fairness): sync.Mutex hands the lock to a waiter that has   *)
(* waited long (starvation mode), and RWMutex.Unlock admits the readers that *)
(* blocked behind the writer before the next writer.                         *)

\* IncrementVisits of the repository: r.cache.Get, then r.cache.Set if found
InvokeIncrementVisits(p, namespace, key) ==
    Invoke(p, "IncrementVisits", namespace, key, Nil)

\* the lock does not look at the arguments: one key, present or absent
FairKeys == {"k"}

NextLockFair ==
    \E p \in Procs :
        \/ \E namespace \in LockNamespaces, key \in FairKeys, value \in LockValues :
               Invoke(p, "Set", namespace, key, value)
        \/ \E namespace \in LockNamespaces, key \in FairKeys :
               \/ Invoke(p, "Get", namespace, key, Nil)
               \/ Invoke(p, "Invalidate", namespace, key, Nil)
               \/ InvokeIncrementVisits(p, namespace, key)
        \/ \E namespace \in LockNamespaces :
               Invoke(p, "InvalidateNamespace", namespace, Nil, Nil)
        \/ Invoke(p, "Clear", Nil, Nil, Nil)
        \/ Invoke(p, "Size", Nil, Nil, Nil)
        \/ LockAnnounce(p)
        \/ LockAcquire(p)
        \/ WriteBody(p)
        \/ Unlock(p)
        \/ RLock(p)
        \/ GetLookup(p)
        \/ MoveToFrontBegin(p)
        \/ MoveToFrontEnd(p)
        \/ SizeLen(p)
        \/ RUnlock(p)

Runs(p) ==
    \/ LockAcquire(p)
    \/ WriteBody(p)
    \/ Unlock(p)
    \/ GetLookup(p)
    \/ MoveToFrontBegin(p)
    \/ MoveToFrontEnd(p)
    \/ SizeLen(p)
    \/ RUnlock(p)

FairScheduler ==
    \A p \in Procs :
        /\ WF_vars(Runs(p))
        /\ SF_vars(LockAnnounce(p))
        /\ SF_vars(RLock(p))

SpecLockFair == InitLock /\ [][NextLockFair]_vars /\ FairScheduler

\* C32: under a fair scheduler every call of the cache that was invoked, the
\* Get and the Set of IncrementVisits included, acquires its lock, finishes
\* and returns with the lock released.
C32_EveryCallReturns ==
    \A p \in Procs :
        /\ (pc[p] # "idle") ~> (pc[p] = "idle")
        /\ [](pc[p] = "idle" => (mutex.writer # p /\ p \notin mutex.readers))

\* the Set of an IncrementVisits, after its Get found the key, waits for the
\* lock while another goroutine is inside a Get
C32_Witness ==
    \E p, q \in Procs :
        /\ p # q
        /\ pc[p] = "LockWait"
        /\ call[p].op = "Set" /\ call[p].found
        /\ mutex.pending = p
        /\ q \in mutex.readers
        /\ pc[q] = "moving"

\* C37: Set(ns1, k1, v) leaves the result of Get(ns2, k2) of every other
\* pair as it was, strings with ':' included, unless the pair's entry was
\* evicted: a pair found after the Set was found before, with the same value.
C37_PairsNeverAlias ==
    [][last'.op = "Set"
        => \A pair \in Pairs \ {<<last'.namespace, last'.key>>} :
              Get(cache', pair[1], pair[2]).found
              => /\ Get(cache, pair[1], pair[2]).found
                 /\ Get(cache', pair[1], pair[2]).value
                        = Get(cache, pair[1], pair[2]).value
      ]_vars

\* the elements of the list that the index entry of a composite key points to
ElementsOf(c, ck) ==
    {i \in 1..Len(c.queue) :
        ElementRef(c.queue[i].namespace, c.queue[i].key) = c.items[ck]}

\* C38: in every state reached by calls of the cache one at a time, every
\* indexed composite key points to exactly one element of the list, built
\* from a namespace and key that compose to it; every element of the list is
\* indexed; and Size is the number of indexed keys.
C38_IndexMatchesList ==
    /\ \A ck \in DOMAIN cache.items :
          /\ Cardinality(ElementsOf(cache, ck)) = 1
          /\ \A i \in ElementsOf(cache, ck) :
                compositeKey(cache.queue[i].namespace, cache.queue[i].key) = ck
    /\ \A i \in 1..Len(cache.queue) :
          \E ck \in DOMAIN cache.items : i \in ElementsOf(cache, ck)
    /\ Size(cache) = Cardinality(DOMAIN cache.items)

\* a full cache whose newest element was built by Set("A:B", "k", ...) and
\* overwritten by Set("A", "B:k", ...), which composes to the same key
C38_Witness ==
    /\ last.op = "Set"
    /\ last.namespace = "A" /\ last.key = "B:k"
    /\ Size(cache) = 2
    /\ cache.queue[1].namespace = "A:B" /\ cache.queue[1].key = "k"
    /\ cache.queue[1].value = last.value

-----------------------------------------------------------------------------
(* The cache with room for one entry more than MaxCapacity, so that a call   *)
(* that removes an entry leaves at least two behind *)

InitOrder ==
    /\ cache = NewNamespaceLRU(MaxCapacity + 1)
    /\ last = NoCall
    /\ prev = Brief(NoCall)
    /\ accessOrder = <<>>
    /\ db = <<>>
    /\ svc = NoServiceCall
    /\ pc = [p \in Procs |-> "idle"]
    /\ call = [p \in Procs |-> NoCall]
    /\ mutex = NewRWMutex
    /\ race = NoRace

OrderValues == {"v1"}

NextOrder ==
    \/ \E namespace \in Namespaces, key \in Keys, value \in OrderValues :
            CallSet(namespace, key, value)
    \/ \E namespace \in Namespaces, key \in Keys : CallGet(namespace, key)
    \/ \E namespace \in Namespaces, key \in Keys : CallInvalidate(namespace, key)
    \/ \E namespace \in Namespaces : CallInvalidateNamespace(namespace)

SpecOrder == InitOrder /\ [][NextOrder]_vars

\* the composite keys in the order in which evict removes them
RECURSIVE EvictionOrder(_)
EvictionOrder(c) ==
    IF Len(c.queue) = 0
    THEN <<>>
    ELSE LET removed == (DOMAIN c.items) \ (DOMAIN evict(c).items)
         IN  <<CHOOSE ck \in removed : TRUE>> \o EvictionOrder(evict(c))

\* C39: Invalidate and InvalidateNamespace leave the entries they do not
\* remove in the order they were in: the order in which later insertions
\* evict them is the order before the call without the removed entries.
C39_InvalidateKeepsOrder ==
    [][last'.op \in {"Invalidate", "InvalidateNamespace"}
        => EvictionOrder(cache')
             = SelectSeq(EvictionOrder(cache),
                         LAMBDA ck : ck \in DOMAIN cache'.items)
      ]_vars

\* one of three entries was removed by InvalidateNamespace and two are left
C39_Witness ==
    /\ last.op = "InvalidateNamespace"
    /\ Cardinality(last.removed) = 1
    /\ Size(cache) = 2
    /\ Len(EvictionOrder(cache)) = 2

-----------------------------------------------------------------------------
(* api.Handler: the status of the response, from the error of the service   *)

StatusCreated == 201
StatusFound == 302
StatusBadRequest == 400
StatusNotFound == 404
StatusInternalServerError == 500

\* Handler.CreateShortURL, for a request body that decodes
CreateShortURLStatus(err) ==
    IF err = Nil THEN StatusCreated
    ELSE IF err = ErrEmptyLongURL THEN StatusBadRequest
    ELSE StatusInternalServerError

\* Handler.RedirectToLongURL
RedirectToLongURLStatus(err) ==
    IF err = Nil THEN StatusFound
    ELSE IF err = ErrShortCodeNotFound THEN StatusNotFound
    ELSE StatusInternalServerError

\* the status of the response to the request that made the last call
Status ==
    CASE svc.op = "CreateShortURL" -> CreateShortURLStatus(svc.err)
      [] svc.op = "GetLongURL" -> RedirectToLongURLStatus(svc.err)
      [] OTHER -> 0

ClientErrors == 400..499
ServerErrors == 500..599

\* C33: the response to a create or redirect request has a 4xx status when
\* the service returned a validation error, not-found or a creation
\* conflict, and a 5xx status only when it returned a storage fault.
C33_ErrorsMappedByClass ==
    svc.op \in {"CreateShortURL", "GetLongURL"}
    => /\ svc.err \in {ErrEmptyLongURL, ErrEmptyShortCode, ErrShortCodeNotFound,
                       ErrShortCodeExists}
          => Status \in ClientErrors
       /\ Status \in ServerErrors => svc.err = DBError

-----------------------------------------------------------------------------
(* The visit counter in the cache and in the table *)

\* C35: with the calls of the service executed one at a time, after every
\* call each record the cache holds under ShortURLNamespace has the Visits of
\* the row of its short code.
C35_CachedVisitsMatchStore ==
    \A shortCode \in ShortCodes :
        Cached(cache, shortCode).found
        => /\ shortCode \in DOMAIN db
           /\ Cached(cache, shortCode).value.Visits = db[shortCode].Visits

\* an update of a code that has been visited, cached with the visits counted
C35_Witness ==
    /\ svc.op = "UpdateLongURL"
    /\ svc.err = Nil
    /\ Cached(cache, svc.shortCode).found
    /\ Cached(cache, svc.shortCode).value.Visits = MaxVisits
    /\ db[svc.shortCode].Visits = MaxVisits

-----------------------------------------------------------------------------
(* GetLongURL and UpdateLongURL called by several goroutines at once, on one *)
(* short code that CreateShortURL has stored. Every statement sent to the    *)
(* database and every method of the cache is a step; url.Visits++ of         *)
(* IncrementVisits, which runs outside every lock, is a read and a write.    *)
(* The cache holds pointers: here svc is the heap, the *URL objects by       *)
(* address, and the values of the cache are addresses. call[p] holds the     *)
(* local variables of goroutine p.                                           *)

RaceCode == "abcdef"

Addresses == 1..(NumProcs + 1)

\* the nil pointer
Null == 0

\* a new object gets an address that no pointer holds
New(heap) == CHOOSE a \in Addresses : a \notin DOMAIN heap

\* the objects that the cache or a local variable still points to
Reachable(heap, c, frames) ==
    LET held == {c.queue[i].value : i \in 1..Len(c.queue)}
                    \cup {frames[p].url : p \in Procs}
    IN  [a \in DOMAIN heap \cap held |-> heap[a]]

\* local variables: url is a pointer, row the record a SELECT returned,
\* visits what url.Visits++ has read
Frame(op, longURL) ==
    [op |-> op, longURL |-> longURL, url |-> Null, row |-> Nil, visits |-> 0]

Idle == Frame("New", Nil)

\* the state after CreateShortURL("https://example.com", "abcdef"), with the
\* record still in the cache or evicted since
InitRace ==
    /\ db = (RaceCode :> URL(1, "https://example.com", RaceCode, "t1", 0))
    /\ \E cached \in BOOLEAN :
         IF cached
         THEN /\ svc = (1 :> URL(0, "https://example.com", RaceCode, "t1", 0))
              /\ cache = Set(NewNamespaceLRU(MaxCapacity), ShortURLNamespace,
                             RaceCode, 1)
         ELSE /\ svc = <<>>
              /\ cache = NewNamespaceLRU(MaxCapacity)
    /\ pc = [p \in Procs |-> "idle"]
    /\ call = [p \in Procs |-> Idle]
    /\ last = NoCall
    /\ prev = Brief(NoCall)
    /\ accessOrder = <<>>
    /\ mutex = NewRWMutex
    /\ race = NoRace

\* the visits that the calls in progress have still to count
Uncounted == Cardinality({p \in Procs : pc[p] \in {"get", "find", "update"}})

InvokeGetLongURL(p) ==
    /\ pc[p] = "idle"
    /\ db[RaceCode].Visits + Uncounted < MaxVisits
    /\ call' = [call EXCEPT ![p] = Frame("GetLongURL", Nil)]
    /\ pc' = [pc EXCEPT ![p] = "get"]
    /\ UNCHANGED <<cache, db, svc, apiVars, mutex, race>>

InvokeUpdateLongURL(p, newLongURL) ==
    /\ pc[p] = "idle"
    /\ call' = [call EXCEPT ![p] = Frame("UpdateLongURL", newLongURL)]
    /\ pc' = [pc EXCEPT ![p] = "ufind"]
    /\ UNCHANGED <<cache, db, svc, apiVars, mutex, race>>

\* GetLongURL: val, found := s.cache.Get(ShortURLNamespace, shortCode)
LookupCacheGet(p) ==
    /\ pc[p] = "get"
    /\ \E got \in {Get(cache, ShortURLNamespace, RaceCode)} :
        /\ cache' = got.cache
        /\ IF got.found
           THEN /\ call' = [call EXCEPT ![p].url = got.value]
                /\ pc' = [pc EXCEPT ![p] = "update"]
           ELSE /\ pc' = [pc EXCEPT ![p] = "find"]
                /\ UNCHANGED call
    /\ UNCHANGED <<db, svc, apiVars, mutex, race>>

\* GetLongURL on a miss: url, err := s.repo.FindByShortCode(ctx, shortCode)
LookupFind(p) ==
    /\ pc[p] = "find"
    /\ call' = [call EXCEPT ![p].row = FindByShortCode(db, RaceCode, "none").url]
    /\ pc' = [pc EXCEPT ![p] = "update"]
    /\ UNCHANGED <<cache, db, svc, apiVars, mutex, race>>

\* IncrementVisits: UPDATE url_models SET visits = visits + 1
IncrementUpdate(p) ==
    /\ pc[p] = "update"
    /\ db' = [db EXCEPT ![RaceCode].Visits = @ + 1]
    /\ pc' = [pc EXCEPT ![p] = "incget"]
    /\ UNCHANGED <<cache, call, svc, apiVars, mutex, race>>

\* IncrementVisits: urlObj, found := r.cache.Get(ShortURLNamespace, shortCode)
IncrementCacheGet(p) ==
    /\ pc[p] = "incget"
    /\ \E got \in {Get(cache, ShortURLNamespace, RaceCode)} :
        /\ cache' = got.cache
        /\ IF got.found
           THEN /\ call' = [call EXCEPT ![p].url = got.value]
                /\ pc' = [pc EXCEPT ![p] = "read"]
                /\ svc' = svc
           ELSE /\ call' = [call EXCEPT ![p].url = Null]
                /\ pc' = [pc EXCEPT ![p] = "return"]
                /\ svc' = Reachable(svc, cache', call')
    /\ UNCHANGED <<db, apiVars, mutex, race>>

\* url.Visits++, the read
IncrementRead(p) ==
    /\ pc[p] = "read"
    /\ call' = [call EXCEPT ![p].visits = svc[call[p].url].Visits]
    /\ pc' = [pc EXCEPT ![p] = "write"]
    /\ UNCHANGED <<cache, db, svc, apiVars, mutex, race>>

\* url.Visits++, the write
IncrementWrite(p) ==
    /\ pc[p] = "write"
    /\ svc' = [svc EXCEPT ![call[p].url].Visits = call[p].visits + 1]
    /\ pc' = [pc EXCEPT ![p] = "incset"]
    /\ UNCHANGED <<cache, db, call, apiVars, mutex, race>>

\* IncrementVisits: r.cache.Set(ShortURLNamespace, shortCode, url)
IncrementCacheSet(p) ==
    /\ pc[p] = "incset"
    /\ cache' = Set(cache, ShortURLNamespace, RaceCode, call[p].url)
    /\ pc' = [pc EXCEPT ![p] = "return"]
    /\ call' = [call EXCEPT ![p].url = Null]
    /\ svc' = Reachable(svc, cache', call')
    /\ UNCHANGED <<db, apiVars, mutex, race>>

\* UpdateLongURL: url, err := s.repo.FindByShortCode(ctx, shortCode)
UpdateFind(p) ==
    /\ pc[p] = "ufind"
    /\ call' = [call EXCEPT ![p].row = FindByShortCode(db, RaceCode, "none").url]
    /\ pc' = [pc EXCEPT ![p] = "uupdate"]
    /\ UNCHANGED <<cache, db, svc, apiVars, mutex, race>>

\* UpdateLongURL: s.repo.UpdateLongURL(ctx, shortCode, newLongURL)
UpdateStore(p) ==
    /\ pc[p] = "uupdate"
    /\ db' = RepoUpdateLongURL(db, RaceCode, call[p].longURL, "none").db
    /\ pc' = [pc EXCEPT ![p] = "uset"]
    /\ UNCHANGED <<cache, call, svc, apiVars, mutex, race>>

\* UpdateLongURL: url.LongURL = newLongURL; s.cache.Set(..., shortCode, url),
\* url being the object FindByShortCode made, which no one else points to
UpdateCacheSet(p) ==
    /\ pc[p] = "uset"
    /\ \E a \in {New(svc)} :
        /\ cache' = Set(cache, ShortURLNamespace, RaceCode, a)
        /\ call' = [call EXCEPT ![p].row = Nil]
        /\ svc' = Reachable((a :> [call[p].row EXCEPT !.LongURL = call[p].longURL])
                                @@ svc,
                            cache', call')
    /\ pc' = [pc EXCEPT ![p] = "return"]
    /\ UNCHANGED <<db, apiVars, mutex, race>>

\* return urlObj, nil / return url, nil
ServiceReturn(p) ==
    /\ pc[p] = "return"
    /\ pc' = [pc EXCEPT ![p] = "idle"]
    /\ call' = [call EXCEPT ![p] = Idle]
    /\ UNCHANGED <<cache, db, svc, apiVars, mutex, race>>

GetLongURLStep(p) ==
    \/ InvokeGetLongURL(p)
    \/ LookupCacheGet(p)
    \/ LookupFind(p)
    \/ IncrementUpdate(p)
    \/ IncrementCacheGet(p)
    \/ IncrementRead(p)
    \/ IncrementWrite(p)
    \/ IncrementCacheSet(p)

UpdateLongURLStep(p) ==
    \/ \E newLongURL \in LongURLs : InvokeUpdateLongURL(p, newLongURL)
    \/ UpdateFind(p)
    \/ UpdateStore(p)
    \/ UpdateCacheSet(p)

NextRace ==
    \E p \in Procs :
        \/ GetLongURLStep(p)
        \/ UpdateLongURLStep(p)
        \/ ServiceReturn(p)

SpecRace == InitRace /\ [][NextRace]_vars

\* concurrent GetLongURL calls and no UpdateLongURL
NextVisits == \E p \in Procs : GetLongURLStep(p) \/ ServiceReturn(p)

SpecVisits == InitRace /\ [][NextVisits]_vars

\* every call has returned
Quiescent == \A p \in Procs : pc[p] = "idle"

\* C34: once every concurrent UpdateLongURL and GetLongURL call on one short
\* code has returned, the record the cache holds for the code, if it holds
\* one, has the LongURL of the row.
C34_CacheAgreesAfterCalls ==
    (Quiescent /\ Cached(cache, RaceCode).found)
    => svc[Cached(cache, RaceCode).value].LongURL = db[RaceCode].LongURL

\* C36: once concurrent GetLongURL calls that hit the cache have all
\* returned, the Visits of the cached record has grown by their number, as
\* the row's has: the two are equal.
C36_NoVisitLost ==
    (Quiescent /\ Cached(cache, RaceCode).found)
    => svc[Cached(cache, RaceCode).value].Visits = db[RaceCode].Visits

====
